---------------------------- MODULE Spec2Model ----------------------------
(***************************************************************************)
(* Diagram tool handlers of next-ai-draw-io: the client-side handlers of   *)
(* display_diagram and append_diagram (useDiagramToolHandlers), the        *)
(* accumulated partial-XML buffer they share, and the server-side region   *)
(* cache the display handler resolves image references against.            *)
(*                                                                         *)
(* Text is modelled character by character: a text is a sequence of        *)
(* one-character strings, so that trim, startsWith, slice, the cache       *)
(* regular expression and String.replace are computed as the code          *)
(* computes them.                                                          *)
(***************************************************************************)
EXTENDS Integers, Sequences, FiniteSets, TLC

VARIABLES
    partialXml,             \* partialXmlRef.current: the accumulated buffer
    extractedRegionsCache,  \* global.extractedRegionsCache: key -> (region -> data URL)
    inflight,               \* display_diagram calls suspended at "await fetch"
    last,                   \* what the handler step that ran last did (tool output, document handed on)
    asm,                    \* history of the buffer: the raw fragments that went into it
    now,                    \* the server's clock, in milliseconds
    timers,                 \* the setTimeout callbacks of the region cache, by cache key
    reply,                  \* the response to the last request a client other than
                            \* display_diagram sent to POST /api/get-cached-regions
    chartXML,               \* chartXMLRef.current: the document on the canvas
    editDiagramOriginalXml, \* editDiagramOriginalXmlRef.current: toolCallId -> document
    edited,                 \* what the edit_diagram call that ran last did
    handled                 \* the request a route of the server handled last, and
                            \* what the route did with it

vars == <<partialXml, extractedRegionsCache, inflight, last, asm, now, timers, reply,
          chartXML, editDiagramOriginalXml, edited, handled>>

\* the state of the edit_diagram handler
editor == <<chartXML, editDiagramOriginalXml, edited>>

\* the clock, the timers and the last response of the server
clockwork == <<now, timers, reply>>

(***************************************************************************)
(* Bounds of the model.                                                    *)
(***************************************************************************)
\* Fragments a caller feeds into one assembly (the first one included).
MaxFragments == 2
\* display_diagram calls suspended on their cache fetch at the same time.
MaxInflight == 1
\* Continuation rounds followed in the long-assembly specification.
MaxRounds == 11
\* The handlers quote slice(-500) of the buffer; the model scales that window
\* down to SliceLen characters so that buffers longer than the window occur.
SliceLen == 9

\* Steps of TickMs the server's clock makes.
MaxTicks == 4

\* Successful reads of one key in a row that are told apart.
MaxReads == 2

\* Operations in one edit_diagram batch.
MaxOps == 2

\* Characters between the positions at which the cut texts are continued.
PieceLen == 24

\* The longest side of an image, in pixels.
MaxSide == 3

\* Requests the quota counts.
MaxChats == 2

\* Regions in one call of extract_image_regions.
MaxRegions == 2

\* Cells in a document that is handed to the validator.
MaxCells == 2

\* stopWhen: stepCountIs(5) of the chat route's streamText call.
StepCount == 5

(***************************************************************************)
(* Text helpers (JavaScript String methods as the handlers use them).      *)
(***************************************************************************)
IsSpace(c) == c \in {" ", "\n"}

RECURSIVE TrimStart(_)
TrimStart(s) ==
    IF s # <<>> /\ IsSpace(Head(s)) THEN TrimStart(Tail(s)) ELSE s

RECURSIVE TrimEnd(_)
TrimEnd(s) ==
    IF s # <<>> /\ IsSpace(s[Len(s)]) THEN TrimEnd(SubSeq(s, 1, Len(s) - 1)) ELSE s

\* String.prototype.trim
Trim(s) == TrimEnd(TrimStart(s))

\* String.prototype.startsWith
StartsWith(s, p) == Len(s) >= Len(p) /\ SubSeq(s, 1, Len(p)) = p

\* s.slice(-n): the last n characters, the whole text when it is shorter
SliceLast(s, n) == IF Len(s) <= n THEN s ELSE SubSeq(s, Len(s) - n + 1, Len(s))

\* the least element of a non-empty set of integers
Least(S) == CHOOSE x \in S : \A y \in S : x <= y

\* s.indexOf(p), 1-based; 0 when p does not occur
IndexOf(s, p) ==
    LET hits == {i \in 1..(Len(s) - Len(p) + 1) :
                    s[i] = Head(p) /\ SubSeq(s, i, i + Len(p) - 1) = p}
    IN  IF hits = {} THEN 0 ELSE Least(hits)

\* s.replace(p, r) with a string pattern: the first occurrence only
ReplaceFirst(s, p, r) ==
    LET i == IndexOf(s, p)
    IN  IF i = 0 THEN s
        ELSE SubSeq(s, 1, i - 1) \o r \o SubSeq(s, i + Len(p), Len(s))

\* a variant that encodes the first ";" only
EncodeFirstSemicolon(s) == ReplaceFirst(s, <<";">>, <<"%", "3", "B">>)

\* dataUrl.replace(/;/g, "%3B")
RECURSIVE EncodeSemicolons(_)
EncodeSemicolons(s) ==
    IF s = <<>> THEN <<>>
    ELSE (IF Head(s) = ";" THEN <<"%", "3", "B">> ELSE <<Head(s)>>)
         \o EncodeSemicolons(Tail(s))

(***************************************************************************)
(* handleAppendDiagram: detection of a fresh start.                        *)
(***************************************************************************)
MxGraphModelTag == <<"<", "m", "x", "G", "r", "a", "p", "h", "M", "o", "d", "e", "l">>
RootTag == <<"<", "r", "o", "o", "t">>
MxfileTag == <<"<", "m", "x", "f", "i", "l", "e">>
MxCellId0 == <<"<", "m", "x", "C", "e", "l", "l", " ", "i", "d", "=", "\"", "0", "\"">>
MxCellId1 == <<"<", "m", "x", "C", "e", "l", "l", " ", "i", "d", "=", "\"", "1", "\"">>

\* a variant that tests the untrimmed text
IsFreshStartUntrimmed(xml) ==
    \/ StartsWith(xml, MxGraphModelTag)
    \/ StartsWith(xml, RootTag)
    \/ StartsWith(xml, MxfileTag)
    \/ StartsWith(xml, MxCellId0)
    \/ StartsWith(xml, MxCellId1)

IsFreshStart(xml) ==
    LET trimmed == Trim(xml)
    IN  \/ StartsWith(trimmed, MxGraphModelTag)
        \/ StartsWith(trimmed, RootTag)
        \/ StartsWith(trimmed, MxfileTag)
        \/ StartsWith(trimmed, MxCellId0)
        \/ StartsWith(trimmed, MxCellId1)

(***************************************************************************)
(* Completeness Detector (isMxCellXmlComplete of @/lib/utils, spec 4.2):   *)
(* a left-to-right scan that keeps whether it is inside a quoted attribute *)
(* value, inside an open angle bracket, and the depth of open elements.    *)
(***************************************************************************)
ScanStart == [quote |-> FALSE, tag |-> FALSE, first |-> FALSE,
              closing |-> FALSE, prev |-> " ", depth |-> 0]

ScanChar(st, c) ==
    IF st.tag
    THEN IF st.quote
         THEN [st EXCEPT !.quote = (c # "\""), !.first = FALSE]
         ELSE IF c = "\""
         THEN [st EXCEPT !.quote = TRUE, !.first = FALSE, !.prev = c]
         ELSE IF c = ">"
         THEN [st EXCEPT !.tag = FALSE, !.first = FALSE,
                         !.depth = IF st.closing THEN st.depth - 1
                                   ELSE IF st.prev = "/" THEN st.depth
                                   ELSE st.depth + 1]
         ELSE [st EXCEPT !.first = FALSE, !.prev = c,
                         !.closing = st.closing \/ (st.first /\ c = "/")]
    ELSE IF c = "<"
         THEN [st EXCEPT !.tag = TRUE, !.first = TRUE, !.closing = FALSE, !.prev = c]
         ELSE st

\* the scan of s[lo..hi], left to right, from state st: the first half, then
\* the second half from the state the first half ends in (the test on left
\* makes TLC compute it before, not after, the second half)
RECURSIVE Scan(_, _, _, _)
Scan(s, lo, hi, st) ==
    IF lo > hi THEN st
    ELSE IF lo = hi THEN ScanChar(st, s[lo])
    ELSE LET mid == (lo + hi) \div 2
             left == Scan(s, lo, mid, st)
         IN  IF left.tag \in BOOLEAN THEN Scan(s, mid + 1, hi, left) ELSE left

\* a variant that looks at the end of the text only
EndsLikeCell(xml) ==
    \/ SliceLast(TrimEnd(xml), 2) = <<"/", ">">>
    \/ SliceLast(TrimEnd(xml), 9) = <<"<", "/", "m", "x", "C", "e", "l", "l", ">">>

IsMxCellXmlComplete(xml) ==
    LET st == Scan(xml, 1, Len(xml), ScanStart)
    IN  ~st.quote /\ ~st.tag /\ st.depth = 0

(***************************************************************************)
(* Document Wrapper (wrapWithMxFile of @/lib/utils, spec 4.5): the flat    *)
(* cell text between the scaffold with the two reserved cells.             *)
(***************************************************************************)
ScaffoldHead ==
    <<"<", "r", "o", "o", "t", ">">>
    \o MxCellId0 \o <<"/", ">">>
    \o MxCellId1 \o <<" ", "p", "a", "r", "e", "n", "t", "=", "\"", "0", "\"", "/", ">">>

ScaffoldTail == <<"<", "/", "r", "o", "o", "t", ">">>

\* a wrapper that leaves the default layer out
WrapWithoutLayer(xml) ==
    <<"<", "r", "o", "o", "t", ">">> \o MxCellId0 \o <<"/", ">">> \o xml \o ScaffoldTail

WrapWithMxFile(xml) == ScaffoldHead \o xml \o ScaffoldTail

(***************************************************************************)
(* handleDisplayDiagram: the cache references of a fragment,               *)
(* cachePattern = /image=data:cache\/([^/]+)\/([^;"\s]+)/g                 *)
(***************************************************************************)
CachePrefix ==
    <<"i", "m", "a", "g", "e", "=", "d", "a", "t", "a", ":", "c", "a", "c", "h", "e", "/">>

ImagePrefix == <<"i", "m", "a", "g", "e", "=">>

\* [^/]+ : the first index at or after i that holds a "/" or lies past the end
KeyEnd(s, i) ==
    Least({j \in i..(Len(s) + 1) : j > Len(s) \/ s[j] = "/"})

\* [^;"\s]+ : the first index at or after i that ends the region name
RegionEnd(s, i) ==
    Least({j \in i..(Len(s) + 1) :
              j > Len(s) \/ s[j] = ";" \/ s[j] = "\"" \/ IsSpace(s[j])})

NoMatch == [key |-> <<>>, region |-> <<>>, end |-> 0]

\* the match of cachePattern that starts at index i, NoMatch when there is none
CacheMatchAt(s, i) ==
    LET k0 == i + Len(CachePrefix)
        k1 == KeyEnd(s, k0)
        r1 == RegionEnd(s, k1 + 1)
    IN  IF /\ s[i] = Head(CachePrefix)
           /\ k0 - 1 <= Len(s)
           /\ SubSeq(s, i, k0 - 1) = CachePrefix
           /\ k1 > k0
           /\ k1 <= Len(s)
           /\ r1 > k1 + 1
        THEN [key |-> SubSeq(s, k0, k1 - 1), region |-> SubSeq(s, k1 + 1, r1 - 1),
              end |-> r1 - 1]
        ELSE NoMatch

\* [...xml.matchAll(cachePattern)] from index i on: the matches, left to right
RECURSIVE MatchAllFrom(_, _)
MatchAllFrom(s, i) ==
    LET starts == {j \in i..Len(s) : CacheMatchAt(s, j) # NoMatch}
    IN  IF starts = {} THEN <<>>
        ELSE LET m == CacheMatchAt(s, Least(starts))
             IN  <<[key |-> m.key, region |-> m.region]>> \o MatchAllFrom(s, m.end + 1)

CacheMatches(xml) == MatchAllFrom(xml, 1)

\* new Set(cacheMatches.map((m) => m[1])): the keys in order of first occurrence
RECURSIVE CacheKeysOf(_, _)
CacheKeysOf(matches, seen) ==
    IF matches = <<>> THEN <<>>
    ELSE IF Head(matches).key \in seen THEN CacheKeysOf(Tail(matches), seen)
    ELSE <<Head(matches).key>>
         \o CacheKeysOf(Tail(matches), seen \cup {Head(matches).key})

\* `image=data:cache/${cacheKey}/${regionName}`
SearchStr(cacheKey, regionName) == CachePrefix \o cacheKey \o <<"/">> \o regionName

\* one turn of the loop over cacheMatches for the key just fetched
ReplaceMatch(xml, m, cacheKey, regions) ==
    IF m.key = cacheKey /\ m.region \in DOMAIN regions /\ regions[m.region] # <<>>
    THEN ReplaceFirst(xml, SearchStr(cacheKey, m.region),
                      ImagePrefix \o EncodeSemicolons(regions[m.region]))
    ELSE xml

\* the whole loop over cacheMatches for the key just fetched
RECURSIVE ReplaceForKey(_, _, _, _)
ReplaceForKey(xml, matches, cacheKey, regions) ==
    IF matches = <<>> THEN xml
    ELSE ReplaceForKey(ReplaceMatch(xml, Head(matches), cacheKey, regions),
                       Tail(matches), cacheKey, regions)

(***************************************************************************)
(* Inputs: the fragments a generator sends, the generations (sessions)     *)
(* that send them, the cache keys and the region mappings of the store.    *)
(***************************************************************************)
CellOpen == <<"<", "m", "x", "C", "e", "l", "l", " ", "i", "d", "=", "\"", "2", "\"">>
CellClose == <<"<", "/", "m", "x", "C", "e", "l", "l", ">">>
StyleOpen == <<"<", "m", "x", "C", "e", "l", "l", " ", "s", "t", "y", "l", "e", "=", "\"">>
KeyK == <<"k">>
KeyJ == <<"j">>
RegionA == <<"a">>
RegionAB == <<"a", "b">>

\* fragments without a cache reference that are no fresh start
PlainFragments ==
    { <<>>,
      CellOpen,                                         \* cut inside a tag
      <<" ", "/", ">">>,                                \* begins with white space
      <<">">>,
      CellClose \o <<"\n">>,                            \* ends with white space
      CellOpen \o <<"/", ">">>,                         \* one complete cell
      CellOpen \o <<" ", "v", "=", "\"", "1", ">">>,    \* cut inside a quoted value
      <<"<", "m", "x", "C", "e", "l", "l", " ", "i", "d", "=", "\"", "1", "0", "\"", "/", ">">> }

\* fragments that begin, after trimming, with a wrapper tag or a root cell
FreshFragments ==
    { <<" ">> \o RootTag \o <<">">>,
      MxfileTag \o <<">">>,
      <<"\n">> \o MxGraphModelTag \o <<">">>,
      MxCellId0 \o <<"/", ">">>,
      MxCellId1 \o <<" ", "p", "a", "r", "e", "n", "t", "=", "\"", "0", "\"", "/", ">">> }

\* fragments that hold cache references, whole or cut
CacheFragments ==
    { StyleOpen \o SearchStr(KeyK, RegionA) \o <<";", "\"", "/", ">">>,
      StyleOpen \o SearchStr(KeyK, RegionA) \o <<";">>,
      StyleOpen \o SearchStr(KeyJ, RegionA) \o <<";">> \o SearchStr(KeyK, RegionAB)
          \o <<"\"", "/", ">">>,
      StyleOpen \o <<"i", "m", "a", "g", "e", "=", "d", "a", "t", "a", ":", "c", "a", "c">>,
      <<"h", "e", "/">> \o KeyK \o <<"/">> \o RegionA \o <<";", "\"", "/", ">">> }

Fragments == PlainFragments \cup FreshFragments \cup CacheFragments

\* a long assembly: a first fragment cut inside a tag, continuations that add
\* nothing or white space, and the one that closes the tag
FirstFragments == {CellOpen, StyleOpen \o SearchStr(KeyK, RegionA) \o <<";", "\"", "/", ">">>}

SlowFragments == {<<>>, <<" ">>, <<" ", "/", ">">>}

\* documents for the cache replacement: a reference repeated, region names of
\* which one is a prefix of the other in both orders, and two keys
ResolverFragments ==
    { StyleOpen \o SearchStr(KeyK, RegionA) \o <<";", "\"", "/", ">">>
          \o StyleOpen \o SearchStr(KeyK, RegionA) \o <<";", "\"", "/", ">">>,
      StyleOpen \o SearchStr(KeyK, RegionAB) \o <<";", "\"", "/", ">">>
          \o StyleOpen \o SearchStr(KeyK, RegionA) \o <<";", "\"", "/", ">">>,
      StyleOpen \o SearchStr(KeyK, RegionA) \o <<";", "\"", "/", ">">>
          \o StyleOpen \o SearchStr(KeyK, RegionAB) \o <<";", "\"", "/", ">">>,
      StyleOpen \o SearchStr(KeyJ, RegionA) \o <<";">> \o SearchStr(KeyK, RegionAB)
          \o <<"\"", "/", ">">>,
      StyleOpen \o SearchStr(KeyK, RegionAB) \o <<";">>,
      CellOpen \o <<"/", ">">> }

\* whole elements for the completeness check: a cell with angle brackets in
\* a quoted value, a cell with a geometry leaf inside, a cell whose quoted
\* value ends like a self-closing tag, and the white space between cells
ElemQuoted == CellOpen \o <<" ", "v", "a", "l", "u", "e", "=", "\"", "a", ">", "b", "<", "c", "\"", "/", ">">>

ElemNested ==
    <<"<", "m", "x", "C", "e", "l", "l", " ", "i", "d", "=", "\"", "3", "\"", ">">>
    \o <<"<", "m", "x", "G", "e", "o", "m", "e", "t", "r", "y", "/", ">">>
    \o CellClose

ElemSlash ==
    <<"<", "m", "x", "C", "e", "l", "l", " ", "i", "d", "=", "\"", "4", "\"", " ", "v", "a", "l", "u", "e", "=", "\"", "/", ">", "\"", ">">>
    \o CellClose

NewLine == <<"\n">>

\* well-formed flat cell sequences, element by element
DetectorDocs ==
    {<<ElemQuoted, NewLine, ElemNested>>, <<ElemSlash>>}

RECURSIVE Flatten(_)
Flatten(elems) == IF elems = <<>> THEN <<>> ELSE Head(elems) \o Flatten(Tail(elems))

\* every cut of every sequence: the text up to any position
CutFragments ==
    UNION {{SubSeq(Flatten(D), 1, n) : n \in 0..Len(Flatten(D))} : D \in DetectorDocs}

\* the positions at which a continuation may start and end
PieceCuts(D) == {n \in 0..Len(Flatten(D)) : n % PieceLen = 0} \cup {Len(Flatten(D))}

\* the continuations: the text from one such position to the next one or to
\* the end
PiecesFrom(D, a) ==
    {SubSeq(Flatten(D), a + 1, b) :
        b \in {c \in PieceCuts(D) : c = Len(Flatten(D)) \/ (a < c /\ c <= a + PieceLen)}}

PieceFragments ==
    UNION {UNION {PiecesFrom(D, a) : a \in PieceCuts(D)} : D \in DetectorDocs}

(***************************************************************************)
(* Cell model (spec 4.1): the cells of a text, tag by tag.                 *)
(***************************************************************************)
MxCellTag == <<"<", "m", "x", "C", "e", "l", "l">>

\* the position of the first "<" of s at or after i, 0 if there is none
TagStart(s, i) ==
    LET starts == {j \in i..Len(s) : s[j] = "<"}
    IN  IF starts = {} THEN 0 ELSE Least(starts)

\* the position of the ">" that ends the tag that starts at i: the first
\* one outside a quoted value; 0 if there is none
TagEnd(s, i) ==
    LET ends == {j \in i..Len(s) :
                    /\ s[j] = ">"
                    /\ Cardinality({k \in i..j : s[k] = "\""}) % 2 = 0}
    IN  IF ends = {} THEN 0 ELSE Least(ends)

\* the value of the attribute of a tag, the empty text if the tag has none
AttrValue(tag, name) ==
    LET opening == <<" ">> \o name \o <<"=", "\"">>
        at == {i \in 1..Len(tag) : StartsWith(SubSeq(tag, i, Len(tag)), opening)}
    IN  IF at = {} THEN <<>>
        ELSE LET from == Least(at) + Len(opening)
                 to == Least({j \in from..Len(tag) : tag[j] = "\""})
             IN  SubSeq(tag, from, to - 1)

TextCell(id, parent, source, target) ==
    [id |-> id, parent |-> parent, source |-> source, target |-> target]

\* the cell a start tag of an mxCell stands for
CellOfTag(tag) ==
    TextCell(AttrValue(tag, <<"i", "d">>), AttrValue(tag, <<"p", "a", "r", "e", "n", "t">>),
             AttrValue(tag, <<"s", "o", "u", "r", "c", "e">>), AttrValue(tag, <<"t", "a", "r", "g", "e", "t">>))

IsCellStart(tag) ==
    /\ StartsWith(tag, MxCellTag)
    /\ tag[Len(MxCellTag) + 1] \in {" ", ">", "/"}

\* the cells of s from position i on, each with the number of mxCell
\* elements that are open where it starts
RECURSIVE ParseFrom(_, _, _)
ParseFrom(s, i, depth) ==
    LET a == TagStart(s, i)
        b == IF a = 0 THEN 0 ELSE TagEnd(s, a)
    IN  IF b = 0 THEN <<>>
        ELSE LET tag == SubSeq(s, a, b)
                 start == IsCellStart(tag)
                 selfClosed == tag[Len(tag) - 1] = "/"
                 closed == tag = CellClose
             IN  (IF start THEN <<[cell |-> CellOfTag(tag), depth |-> depth]>> ELSE <<>>)
                 \o ParseFrom(s, b + 1,
                              IF start /\ ~selfClosed THEN depth + 1
                              ELSE IF closed THEN depth - 1 ELSE depth)

ParseCells(s) == ParseFrom(s, 1, 0)

\* the text of one cell
AttrText(name, value) ==
    IF value = <<>> THEN <<>> ELSE <<" ">> \o name \o <<"=", "\"">> \o value \o <<"\"">>

CellText(c) ==
    MxCellTag \o AttrText(<<"i", "d">>, c.id) \o AttrText(<<"s", "o", "u", "r", "c", "e">>, c.source)
    \o AttrText(<<"t", "a", "r", "g", "e", "t">>, c.target) \o AttrText(<<"p", "a", "r", "e", "n", "t">>, c.parent) \o <<"/", ">">>

\* the text of a sequence of cells
RECURSIVE CellsText(_)
CellsText(cells) ==
    IF cells = <<>> THEN <<>> ELSE CellText(Head(cells)) \o CellsText(Tail(cells))

\* cells for the validator: a vertex, its child, an edge to a cell that is
\* in no document, a cell whose parent is in none
TextA == TextCell(<<"2">>, <<"1">>, <<>>, <<>>)

TextB == TextCell(<<"3">>, <<"2">>, <<>>, <<>>)

TextDangling == TextCell(<<"4">>, <<"1">>, <<"2">>, <<"9">>)

\* an edge of the vertex to itself
TextLoop == TextCell(<<"4">>, <<"1">>, <<"2">>, <<"2">>)

TextOrphan == TextCell(<<"5">>, <<"8">>, <<>>, <<>>)

TextCells == {TextA, TextB, TextLoop, TextDangling, TextOrphan}

\* the sequences of up to MaxCells different cells: among them documents
\* with an id twice and with references that resolve to nothing
CellSequences ==
    {D \in UNION {[1..n -> TextCells] : n \in 0..MaxCells} :
        \A j \in DOMAIN D, k \in DOMAIN D : D[j] = D[k] => j = k}

\* a cell written inside another cell
NestedText ==
    MxCellTag \o AttrText(<<"i", "d">>, <<"2">>) \o <<">">> \o CellText(TextB) \o CellClose

\* a cell whose closing "/>" has not arrived
CutText(c) == SubSeq(CellText(c), 1, Len(CellText(c)) - 2)

DocumentTexts ==
    {CellsText(D) : D \in CellSequences} \cup {NestedText, ElemQuoted, ElemSlash}
        \cup {CutText(c) : c \in TextCells}

\* what append_diagram is called with: a whole cell or the missing "/>"
ContinuationTexts == {CellText(c) : c \in TextCells} \cup {<<"/", ">">>}

\* the fragments of interleaved generations
InterleavedFragments ==
    {CellOpen, <<" ", "/", ">">>, StyleOpen \o SearchStr(KeyK, RegionA) \o <<";">>}

Generations == {"A", "B"}

\* keys extract_image_regions generates
CacheKeys == {KeyK}

\* region mappings extract_image_regions stores: region name -> data URL
RegionMappings ==
    { (RegionA :> <<"d", ";", "b", ";">>),
      (RegionA :> <<"d", ";", "b", ";">>) @@ (RegionAB :> <<"e">>) }

(***************************************************************************)
(* State after construction of the hook and start of the server.           *)
(***************************************************************************)
NoOutput ==
    [tool |-> "none", kind |-> "none", state |-> "none", quoted |-> <<>>,
     handed |-> <<>>, arg |-> <<>>, gen |-> "none", stale |-> FALSE]

NoAssembly ==
    [open |-> FALSE, first |-> FALSE, n |-> 0, rounds |-> 0, raw |-> <<>>,
     gens |-> {}]

NoReply == [status |-> 0, key |-> <<>>, regions |-> << >>, reads |-> 0]

(***************************************************************************)
(* Documents of cells, as edit_diagram sees them.  A document is the set   *)
(* of its cells besides the two scaffold cells "0" and "1".                *)
(***************************************************************************)
Cell(id, parent, source, target, value) ==
    [id |-> id, parent |-> parent, source |-> source, target |-> target,
     value |-> value]

\* a container, its child, an edge from the child to a fourth cell
CellP == Cell("2", "1", "", "", "P")

CellC == Cell("3", "2", "", "", "C")

CellE == Cell("4", "1", "3", "5", "")

CellX == Cell("5", "1", "", "", "X")

\* payloads of operations: a new cell, a new content for it, a text that is
\* no cell
CellN == Cell("6", "1", "", "", "N")

CellN2 == Cell("6", "1", "", "", "N2")

Malformed == Cell("", "", "", "", "<")

\* new_xml of an operation that has none
NoPayload == Cell("", "", "", "", "")

\* the document on the canvas when the session starts
InitialChart == {CellP, CellC, CellE, CellX}

Ids(doc) == {c.id : c \in doc}

\* DiagramOperation
Op(operation, cell_id, new_xml) ==
    [operation |-> operation, cell_id |-> cell_id, new_xml |-> new_xml]

Operations ==
    {Op("add", "6", CellN), Op("add", "6", Malformed), Op("update", "6", CellN2),
     Op("delete", "2", NoPayload), Op("delete", "3", NoPayload),
     Op("delete", "6", NoPayload)}

\* the batches of a tool call: up to MaxOps operations
Batches == UNION {[1..n -> Operations] : n \in 1..MaxOps}

ToolCallIds == {"call1", "call2"}

\* cells of documents whose references form chains and cycles: a container
\* that is a child of its own child, a cell that is a child of the edge
CellPc == Cell("2", "3", "", "", "P")

CellXc == Cell("5", "4", "", "", "X")

\* a new content for the edge that names neither source nor target
CellE2 == Cell("4", "1", "", "", "E2")

\* the documents edit_diagram may meet on the canvas: no id twice
PatchDocuments ==
    {doc \in SUBSET {CellP, CellPc, CellC, CellE, CellX, CellXc} :
        \A c \in doc, d \in doc : c.id = d.id => c = d}

PatchOperations ==
    {Op("delete", "2", NoPayload), Op("delete", "3", NoPayload),
     Op("delete", "4", NoPayload), Op("delete", "5", NoPayload),
     Op("add", "6", CellN), Op("add", "7", CellX), Op("update", "4", CellE2)}

PatchBatches == UNION {[1..n -> PatchOperations] : n \in 1..MaxOps}

\* no request has been handled yet
NoRequest == [route |-> "none"]

NoEdit ==
    [id |-> "", state |-> "none", kind |-> "none", errors |-> <<>>,
     current |-> {}, operations |-> <<>>, calls |-> <<>>]

\* the session starts with any of the documents on the canvas
InitPatch ==
    /\ partialXml = <<>>
    /\ extractedRegionsCache = [k \in {} |-> << >>]
    /\ inflight = <<>>
    /\ last = NoOutput
    /\ asm = NoAssembly
    /\ now = 0
    /\ timers = [k \in {} |-> << >>]
    /\ reply = NoReply
    /\ chartXML \in PatchDocuments
    /\ editDiagramOriginalXml = [t \in {} |-> {}]
    /\ edited = NoEdit
    /\ handled = NoRequest

Init ==
    /\ partialXml = <<>>
    /\ extractedRegionsCache = [k \in {} |-> << >>]
    /\ inflight = <<>>
    /\ last = NoOutput
    /\ asm = NoAssembly
    /\ now = 0
    /\ timers = [k \in {} |-> << >>]
    /\ reply = NoReply
    /\ chartXML = InitialChart
    /\ editDiagramOriginalXml = [t \in {} |-> {}]
    /\ edited = NoEdit
    /\ handled = NoRequest

(***************************************************************************)
(* Server: the region cache.                                               *)
(***************************************************************************)
\* extract_image_regions.execute: global.extractedRegionsCache.set(cacheKey, regionMapping)
\* with a key made of Date.now() and a random suffix, which no entry holds yet
ExtractImageRegions ==
    \E key \in CacheKeys \ DOMAIN extractedRegionsCache, mapping \in RegionMappings :
        /\ extractedRegionsCache' =
               [k \in DOMAIN extractedRegionsCache \cup {key} |->
                    IF k = key THEN mapping ELSE extractedRegionsCache[k]]
        /\ UNCHANGED <<partialXml, inflight, last, asm, clockwork, editor, handled>>

\* the setTimeout callback: global.extractedRegionsCache?.delete(cacheKey)
ExpireRegions ==
    \E key \in DOMAIN extractedRegionsCache :
        /\ extractedRegionsCache' =
               [k \in DOMAIN extractedRegionsCache \ {key} |-> extractedRegionsCache[k]]
        /\ UNCHANGED <<partialXml, inflight, last, asm, clockwork, editor, handled>>

\* a variant that removes the entry it reads
RemovedOnRead(store, cacheKey) == [k \in DOMAIN store \ {cacheKey} |-> store[k]]

\* the store after POST /api/get-cached-regions served a request: the route
\* calls extractedRegionsCache.get and nothing else
StoreAfterRead(store, cacheKey) == store

\* POST /api/get-cached-regions: the response to a fetch of cacheKey
\* (ok with the mapping, or 404), or no response when the request itself fails
GetCachedRegions(cacheKey, netOk) ==
    IF netOk /\ cacheKey \in DOMAIN extractedRegionsCache
    THEN [ok |-> TRUE, regions |-> extractedRegionsCache[cacheKey]]
    ELSE [ok |-> FALSE, regions |-> << >>]

(***************************************************************************)
(* Server: the region cache with its clock.  Time is counted in            *)
(* milliseconds and passes in steps of TickMs.                             *)
(***************************************************************************)
\* setTimeout(..., 10 * 60 * 1000)
Ttl == 10 * 60 * 1000

TickMs == 5 * 60 * 1000

\* keys extract_image_regions generates, each of them once
StoreKeys == {KeyK, KeyJ}

\* request bodies: a cache key, an empty cache key, a body that is no JSON
InvalidBody == <<>>

MalformedBody == <<"{">>

Requests == StoreKeys \cup {InvalidBody, MalformedBody}

\* a variant of the insert that writes the mapping under every key
StoreShared(store, key, mapping) == [k \in DOMAIN store \cup {key} |-> mapping]

\* the store with one more entry
StoreWith(store, key, mapping) ==
    [k \in DOMAIN store \cup {key} |-> IF k = key THEN mapping ELSE store[k]]

\* a variant of the timer callback that empties the store
ClearedByTimer(store, key) == [k \in {} |-> << >>]

\* the setTimeout callback: global.extractedRegionsCache?.delete(cacheKey)
StoreAfterTimer(store, key) == [k \in DOMAIN store \ {key} |-> store[k]]

\* extract_image_regions.execute at time now: the entry and its timer
ExtractImageRegionsAt ==
    \E key \in StoreKeys \ DOMAIN timers, mapping \in RegionMappings :
        /\ extractedRegionsCache' = StoreWith(extractedRegionsCache, key, mapping)
        /\ timers' = StoreWith(timers, key,
                        [created |-> now, due |-> now + Ttl, stored |-> mapping,
                         fired |-> FALSE])
        /\ UNCHANGED <<partialXml, inflight, last, asm, now, reply, editor, handled>>

\* a timer that is due runs its callback
TimerFires ==
    \E key \in DOMAIN timers :
        /\ ~timers[key].fired
        /\ timers[key].due <= now
        /\ extractedRegionsCache' = StoreAfterTimer(extractedRegionsCache, key)
        /\ timers' = [timers EXCEPT ![key].fired = TRUE]
        /\ UNCHANGED <<partialXml, inflight, last, asm, now, reply, editor, handled>>

Tick ==
    /\ now < MaxTicks * TickMs
    /\ now' = now + TickMs
    /\ UNCHANGED <<partialXml, extractedRegionsCache, inflight, last, asm, timers, reply, editor, handled>>

\* how many times in a row the key of the request has been read with success,
\* counted up to MaxReads
ReadsOf(body) ==
    IF reply.status = 200 /\ reply.key = body /\ reply.reads < MaxReads
    THEN reply.reads + 1
    ELSE IF reply.status = 200 /\ reply.key = body THEN MaxReads ELSE 1

\* POST /api/get-cached-regions: the response to a request body
Respond(body) ==
    IF body = MalformedBody
    THEN [status |-> 500, key |-> body, regions |-> << >>, reads |-> 0]
    ELSE IF body = InvalidBody
    THEN [status |-> 400, key |-> body, regions |-> << >>, reads |-> 0]
    ELSE IF body \notin DOMAIN extractedRegionsCache
    THEN [status |-> 404, key |-> body, regions |-> << >>, reads |-> 0]
    ELSE [status |-> 200, key |-> body, regions |-> extractedRegionsCache[body],
          reads |-> ReadsOf(body)]

\* POST /api/get-cached-regions serves a request
PostGetCachedRegions ==
    \E body \in Requests :
        /\ reply' = Respond(body)
        /\ extractedRegionsCache' = StoreAfterRead(extractedRegionsCache, body)
        /\ UNCHANGED <<partialXml, inflight, last, asm, now, timers, editor, handled>>

(***************************************************************************)
(* Server: handleChatRequest of the chat route, up to the call of the      *)
(* model.                                                                  *)
(***************************************************************************)
\* process.env.ACCESS_CODE_LIST split at its commas: none, a code with
\* white space around it, empty entries only
AccessCodeLists == {<<>>, <<<<" ", "s">>, <<>>>>, <<<<>>, <<" ">>>>}

\* the x-access-code header: none, the code, the code with a space before it
AccessCodeHeaders == {<<>>, <<"s">>, <<" ", "s">>}

\* .map((code) => code.trim()).filter(Boolean)
AccessCodes(list) == {Trim(list[i]) : i \in DOMAIN list} \ {<<>>}

ChatRequests ==
    [list : AccessCodeLists, header : AccessCodeHeaders,
     quotaEnabled : BOOLEAN, hasOwnApiKey : BOOLEAN, anonymous : BOOLEAN,
     allowed : BOOLEAN, filesValid : BOOLEAN, cached : BOOLEAN]

\* a variant of the handler that counts the request before it looks at the
\* access code
QuotaBeforeAccess(req) ==
    IF req.quotaEnabled /\ ~req.hasOwnApiKey /\ ~req.anonymous
    THEN <<"checkAndIncrementRequest", "accessCheck">>
    ELSE <<"accessCheck">>

\* the access check: 401 when codes are configured and the header is
\* missing or is none of them
AccessCheck(req) == <<"accessCheck">>

Denied(req) ==
    /\ AccessCodes(req.list) # {}
    /\ req.header = <<>> \/ req.header \notin AccessCodes(req.list)

Metered(req) == req.quotaEnabled /\ ~req.hasOwnApiKey /\ req.anonymous = FALSE

\* what handleChatRequest does with a request: the status of its response
\* and the calls it makes, in their order
HandleChat(req) ==
    IF Denied(req)
    THEN [status |-> 401, calls |-> AccessCheck(req)]
    ELSE IF Metered(req) /\ ~req.allowed
    THEN [status |-> 429,
          calls |-> AccessCheck(req) \o <<"json", "checkAndIncrementRequest">>]
    ELSE LET counted == AccessCheck(req) \o <<"json">>
                 \o (IF Metered(req) THEN <<"checkAndIncrementRequest">> ELSE <<>>)
                 \o <<"validateFileParts">>
         IN  IF ~req.filesValid
             THEN [status |-> 400, calls |-> counted]
             ELSE IF req.cached
             THEN [status |-> 200,
                   calls |-> counted \o <<"findCachedResponse",
                                          "createCachedStreamResponse">>]
             ELSE [status |-> 200,
                   calls |-> counted \o <<"findCachedResponse", "streamText">>]

\* the requests counted so far
Used == IF handled.route = "chat" THEN handled.used ELSE 0

\* POST /api/chat; the counter of the quota goes up with every request that
\* checkAndIncrementRequest lets through
HandleChatRequest ==
    \E req \in ChatRequests :
        \E done \in {HandleChat(req)} :
            \E counts \in {\E i \in DOMAIN done.calls :
                               done.calls[i] = "checkAndIncrementRequest"} :
                /\ counts /\ req.allowed => Used < MaxChats
                /\ handled' = [route |-> "chat", req |-> req, status |-> done.status,
                               calls |-> done.calls,
                               used |-> IF counts /\ req.allowed THEN Used + 1 ELSE Used]
                /\ UNCHANGED <<partialXml, extractedRegionsCache, inflight, last, asm,
                               clockwork, editor>>

(***************************************************************************)
(* Server: the clamping of a region in POST /api/extract-regions           *)
(***************************************************************************)
Max(a, b) == IF a >= b THEN a ELSE b

Min(a, b) == IF a <= b THEN a ELSE b

\* Math.round of an integer
Round(n) == n

\* imageMetadata.width || 0 and imageMetadata.height || 0
ImageSides == 0..MaxSide

\* region.x, region.y, region.width, region.height: integers below zero,
\* inside the image and beyond it
Coordinates == (0 - 1)..(MaxSide + 1)

RequestedRegions ==
    [name : {"a"}, x : Coordinates, y : Coordinates,
     width : Coordinates, height : Coordinates]

\* a variant that clamps width and height to the size of the image
ClampedToSize(region, imageWidth, imageHeight) ==
    [x |-> Max(0, Min(Round(region.x), imageWidth - 1)),
     y |-> Max(0, Min(Round(region.y), imageHeight - 1)),
     width |-> Max(1, Min(Round(region.width), imageWidth)),
     height |-> Max(1, Min(Round(region.height), imageHeight))]

\* x, y, width, height of the crop
Clamped(region, imageWidth, imageHeight) ==
    LET x == Max(0, Min(Round(region.x), imageWidth - 1))
        y == Max(0, Min(Round(region.y), imageHeight - 1))
    IN  [x |-> x, y |-> y,
         width |-> Max(1, Min(Round(region.width), imageWidth - x)),
         height |-> Max(1, Min(Round(region.height), imageHeight - y))]

\* adjustmentWarnings after the region
AdjustmentWarnings(region, crop) ==
    IF \/ crop.x # Round(region.x)
       \/ crop.y # Round(region.y)
       \/ crop.width # Round(region.width)
       \/ crop.height # Round(region.height)
    THEN <<[name |-> region.name,
            from |-> <<region.x, region.y, region.width, region.height>>,
            to |-> <<crop.x, crop.y, crop.width, crop.height>>]>>
    ELSE <<>>

\* the route has read the image and the region of the request
InitClamp ==
    /\ partialXml = <<>>
    /\ extractedRegionsCache = [k \in {} |-> << >>]
    /\ inflight = <<>>
    /\ last = NoOutput
    /\ asm = NoAssembly
    /\ now = 0
    /\ timers = [k \in {} |-> << >>]
    /\ reply = NoReply
    /\ chartXML = InitialChart
    /\ editDiagramOriginalXml = [t \in {} |-> {}]
    /\ edited = NoEdit
    /\ handled \in [route : {"extract"}, state : {"received"},
                     imageWidth : ImageSides, imageHeight : ImageSides,
                     region : RequestedRegions]

\* the callback of regions.map up to the crop
ClampRegion ==
    /\ handled.route = "extract"
    /\ handled.state = "received"
    /\ \E crop \in {Clamped(handled.region, handled.imageWidth, handled.imageHeight)} :
          handled' = [route |-> "extract", state |-> "clamped",
                      imageWidth |-> handled.imageWidth,
                      imageHeight |-> handled.imageHeight,
                      region |-> handled.region,
                      crop |-> crop,
                      adjustmentWarnings |-> AdjustmentWarnings(handled.region, crop)]
    /\ UNCHANGED <<partialXml, extractedRegionsCache, inflight, last, asm,
                   clockwork, editor>>

(***************************************************************************)
(* Server: extract_image_regions from the answer of /api/extract-regions   *)
(* to its own answer.                                                      *)
(***************************************************************************)
\* one region of result.regions: extracted, or failed with an error
Extracted(name, dataUrl) == [name |-> name, error |-> FALSE, dataUrl |-> dataUrl]

FailedRegion(name) == [name |-> name, error |-> TRUE, dataUrl |-> <<>>]

RegionResults ==
    {Extracted(RegionA, <<"d", ";", "b", ";">>), Extracted(RegionAB, <<"e">>),
     FailedRegion(RegionA), FailedRegion(RegionAB)}

ExtractionResults == UNION {[1..n -> RegionResults] : n \in 0..MaxRegions}

\* result.regions.filter((r) => !r.error)
RECURSIVE WithoutErrors(_)
WithoutErrors(regions) ==
    IF regions = <<>> THEN <<>>
    ELSE IF Head(regions).error THEN WithoutErrors(Tail(regions))
    ELSE <<Head(regions)>> \o WithoutErrors(Tail(regions))

\* regionMapping[r.name] = r.dataUrl for the regions without error, a later
\* region of the same name replacing an earlier one
RECURSIVE MappingFrom(_, _)
MappingFrom(regions, mapping) ==
    IF regions = <<>> THEN mapping
    ELSE MappingFrom(Tail(regions),
             [n \in DOMAIN mapping \cup {Head(regions).name} |->
                 IF n = Head(regions).name THEN Head(regions).dataUrl ELSE mapping[n]])

RegionMapping(regions) == MappingFrom(WithoutErrors(regions), [n \in {} |-> <<>>])

\* a variant of the answer that names every region
NamesOfAll(regions) == [i \in DOMAIN regions |-> regions[i].name]

\* the names the answer lists after "Names:": those of the regions without
\* error; with the key of the answer they make the references
\* image=data:cache/<key>/<name>
NamesHandedOut(regions) ==
    [i \in DOMAIN WithoutErrors(regions) |-> WithoutErrors(regions)[i].name]

\* extract_image_regions.execute from line 897 on, at time now: the entry,
\* its timer and the answer with the key and the names
ExtractRegions ==
    \E key \in StoreKeys \ DOMAIN timers, regions \in ExtractionResults :
        /\ extractedRegionsCache' =
               StoreWith(extractedRegionsCache, key, RegionMapping(regions))
        /\ timers' = StoreWith(timers, key,
                        [created |-> now, due |-> now + Ttl,
                         stored |-> RegionMapping(regions), fired |-> FALSE,
                         regions |-> regions, names |-> NamesHandedOut(regions)])
        /\ UNCHANGED <<partialXml, inflight, last, asm, now, reply, editor, handled>>

(***************************************************************************)
(* The patch engine: applyDiagramOperations of @/lib/utils.                *)
(***************************************************************************)
\* the cells a delete of id removes: the least set that holds id, every
\* cell whose parent is in it and every edge with an end in it
\* a variant that stops after the children and the edges of the target
CascadeOnce(doc, set) ==
    set \cup {c.id : c \in {d \in doc : \/ d.parent \in set
                                       \/ d.source \in set
                                       \/ d.target \in set}}

RECURSIVE CascadeFrom(_, _)
CascadeFrom(doc, set) ==
    LET more == {c.id : c \in {d \in doc : \/ d.parent \in set
                                           \/ d.source \in set
                                           \/ d.target \in set}}
    IN  IF more \subseteq set THEN set ELSE CascadeFrom(doc, set \cup more)

Cascade(doc, id) == CascadeFrom(doc, {id})

NoError == [type |-> "", cellId |-> "", message |-> ""]

OperationError(op, message) ==
    [type |-> op.operation, cellId |-> op.cell_id, message |-> message]

\* new_xml is no complete cell, or a cell whose id is not cell_id
BadPayload(op) == op.new_xml = Malformed \/ op.new_xml.id # op.cell_id

\* a variant of add that does not look for the id in the document
AddUnchecked(doc, op) == [doc |-> doc \cup {op.new_xml}, error |-> NoError]

\* add: DuplicateId if the id exists, else the payload cell is inserted
AddCell(doc, op) ==
    IF op.cell_id \in Ids(doc)
    THEN [doc |-> doc, error |-> OperationError(op, "DuplicateId")]
    ELSE [doc |-> doc \cup {op.new_xml}, error |-> NoError]

\* the payload with the attributes it does not name taken from the old cell
Merged(old, new) ==
    [id |-> new.id,
     parent |-> IF new.parent = "" THEN old.parent ELSE new.parent,
     source |-> IF new.source = "" THEN old.source ELSE new.source,
     target |-> IF new.target = "" THEN old.target ELSE new.target,
     value |-> IF new.value = "" THEN old.value ELSE new.value]

\* a variant of update that merges the payload into the cell
UpdateMerging(doc, op) ==
    IF op.cell_id \notin Ids(doc)
    THEN [doc |-> doc, error |-> OperationError(op, "UnknownCell")]
    ELSE [doc |-> {IF c.id = op.cell_id THEN Merged(c, op.new_xml) ELSE c : c \in doc},
          error |-> NoError]

\* update: UnknownCell if the id does not exist, else the cell is replaced
\* by the payload cell
UpdateCell(doc, op) ==
    IF op.cell_id \notin Ids(doc)
    THEN [doc |-> doc, error |-> OperationError(op, "UnknownCell")]
    ELSE [doc |-> {c \in doc : c.id # op.cell_id} \cup {op.new_xml},
          error |-> NoError]

\* delete: UnknownCell if the id does not exist, else the cascade is removed
DeleteCell(doc, op) ==
    IF op.cell_id \notin Ids(doc)
    THEN [doc |-> doc, error |-> OperationError(op, "UnknownCell")]
    ELSE [doc |-> {c \in doc : c.id \notin Cascade(doc, op.cell_id)},
          error |-> NoError]

\* one operation on the working document: the document after it and its error
ApplyOperation(doc, op) ==
    IF op.operation = "delete" THEN DeleteCell(doc, op)
    ELSE IF BadPayload(op)
    THEN [doc |-> doc, error |-> OperationError(op, "MalformedFragment")]
    ELSE IF op.operation = "add" THEN AddCell(doc, op)
    ELSE UpdateCell(doc, op)

\* the operations in their order, each on the document the ones before it
\* left, the errors collected
RECURSIVE ApplyFrom(_, _, _, _)
ApplyFrom(doc, operations, i, errors) ==
    IF i > Len(operations) THEN [doc |-> doc, errors |-> errors]
    ELSE LET step == ApplyOperation(doc, operations[i])
         IN  ApplyFrom(step.doc, operations, i + 1,
                       IF step.error = NoError THEN errors
                       ELSE Append(errors, step.error))

\* applyDiagramOperations(currentXml, operations): { result, errors }
ApplyDiagramOperations(currentXml, operations) ==
    LET applied == ApplyFrom(currentXml, operations, 1, <<>>)
    IN  [result |-> IF applied.errors = <<>> THEN applied.doc ELSE currentXml,
         errors |-> applied.errors]

(***************************************************************************)
(* Client: the edit_diagram handler.                                       *)
(***************************************************************************)
\* a variant of the handler that does not look at the errors
EditCallsUnchecked(errors, valid) ==
    IF valid THEN <<"onDisplayChart", "onExport", "addToolOutput">>
    ELSE <<"onDisplayChart", "addToolOutput">>

\* a variant of the handler that exports whatever the validation says
EditCallsExporting(errors, valid) ==
    IF errors # <<>> THEN <<"addToolOutput">>
    ELSE <<"onDisplayChart", "onExport", "addToolOutput">>

\* the callbacks handleEditDiagram calls, in their order
EditCalls(errors, valid) ==
    IF errors # <<>> THEN <<"addToolOutput">>
    ELSE IF valid THEN <<"onDisplayChart", "onExport", "addToolOutput">>
    ELSE <<"onDisplayChart", "addToolOutput">>

\* a variant of the error text that names the first failing operation only
FirstErrorOnly(errors) ==
    IF errors = <<>> THEN <<>>
    ELSE <<<<errors[1].type, errors[1].cellId, errors[1].message>>>>

\* errors.map(e => `- ${e.type} on cell_id="${e.cellId}": ${e.message}`):
\* the lines of the error text, each with the type, the cell id and the
\* message it names
ErrorMessages(errors) ==
    [i \in DOMAIN errors |-> <<errors[i].type, errors[i].cellId, errors[i].message>>]

Called(calls, name) == \E i \in DOMAIN calls : calls[i] = name

\* the original document of the call: the one captured while the call was
\* streamed, else the document on the canvas
CurrentXml(toolCallId) ==
    IF toolCallId \in DOMAIN editDiagramOriginalXml
    THEN editDiagramOriginalXml[toolCallId]
    ELSE chartXML

\* a variant of the handler that keeps the entry
NotReleased(toolCallId) == editDiagramOriginalXml

\* editDiagramOriginalXmlRef.current.delete(toolCall.toolCallId)
Released(toolCallId) ==
    [t \in DOMAIN editDiagramOriginalXml \ {toolCallId} |-> editDiagramOriginalXml[t]]

\* the document on the canvas is captured for a call that is being streamed
CaptureOriginal ==
    \E toolCallId \in ToolCallIds \ DOMAIN editDiagramOriginalXml :
        /\ edited = NoEdit
        /\ editDiagramOriginalXml' =
               [t \in DOMAIN editDiagramOriginalXml \cup {toolCallId} |->
                   IF t = toolCallId THEN chartXML ELSE editDiagramOriginalXml[t]]
        /\ UNCHANGED <<partialXml, extractedRegionsCache, inflight, last, asm,
                       clockwork, handled, chartXML, edited>>

\* handleEditDiagram; valid is whether onDisplayChart accepts the document,
\* thrown whether applyDiagramOperations throws
EditDiagram(batches) ==
    \E toolCallId \in ToolCallIds, operations \in batches,
       thrown \in BOOLEAN, valid \in BOOLEAN :
        /\ edited = NoEdit
        /\ \E currentXml \in {CurrentXml(toolCallId)} :
             \E applied \in {ApplyDiagramOperations(currentXml, operations)} :
               \E calls \in {IF thrown THEN <<"addToolOutput">>
                              ELSE EditCalls(applied.errors, valid)} :
                 /\ chartXML' = IF Called(calls, "onDisplayChart") /\ valid
                                THEN applied.result ELSE chartXML
                 /\ edited' =
                       [id |-> toolCallId,
                        state |-> IF Called(calls, "onExport") THEN "output-available"
                                  ELSE "output-error",
                        kind |-> IF thrown THEN "failed"
                                 ELSE IF applied.errors # <<>> THEN "operations"
                                 ELSE IF valid THEN "applied" ELSE "invalid",
                        errors |-> IF thrown THEN <<>>
                                   ELSE ErrorMessages(applied.errors),
                        current |-> currentXml,
                        operations |-> operations,
                        calls |-> calls]
                 /\ editDiagramOriginalXml' = Released(toolCallId)
        /\ UNCHANGED <<partialXml, extractedRegionsCache, inflight, last, asm,
                       clockwork, handled>>

HandleEditDiagram == EditDiagram(Batches)

\* the tool output goes back to the generator and the next call may come
OutputSent ==
    /\ edited # NoEdit
    /\ edited' = NoEdit
    /\ UNCHANGED <<partialXml, extractedRegionsCache, inflight, last, asm,
                   clockwork, handled, chartXML, editDiagramOriginalXml>>

(***************************************************************************)
(* Client: the handlers of useDiagramToolHandlers.                         *)
(***************************************************************************)
\* a variant that quotes the head of the buffer
PartialBeginning(buffer) == SubSeq(buffer, 1, IF Len(buffer) <= SliceLen THEN Len(buffer) ELSE SliceLen)

\* partialXmlRef.current.slice(-500), the resumption point quoted to the generator
PartialEnding(buffer) == SliceLast(buffer, SliceLen)

\* a variant that keeps the pending text in front of the fragment
PendingAndTruncated(xml) == partialXml \o xml

\* partialXmlRef.current = xml (display_diagram, truncated)
TruncatedBuffer(xml) == xml

\* variants: the continuation trimmed before it is appended; the continuation
\* alone in place of the accumulated text
TrimmedAppend(buffer, xml) == buffer \o Trim(xml)

LastFragmentOnly(buffer, xml) == xml

\* partialXmlRef.current += xml (append_diagram)
AppendedBuffer(buffer, xml) == buffer \o xml

\* a variant that leaves text behind
LeftoverBuffer == <<"<">>

\* partialXmlRef.current = "" (display_diagram and append_diagram, complete)
ResetBuffer == <<>>

\* a variant that hands on the end of the text only
HandedOnEnding(finalXml) == <<WrapWithMxFile(PartialEnding(finalXml))>>

\* const fullXml = wrapWithMxFile(finalXml); onDisplayChart(fullXml)
HandedOn(finalXml) == <<WrapWithMxFile(finalXml)>>

\* the buffer a fresh-start rejection leaves (the handler returns before it assigns)
RejectedBuffer(buffer, xml) == buffer

\* the unresolved references an output of display_diagram names: the success
\* output is the fixed text "Successfully displayed the diagram.", the error
\* texts quote the end of the buffer or the document; none lists references
UnresolvedReported(output) == <<>>

\* the assembly a truncated first fragment opens
OpenedAssembly(gen, raw) ==
    [open |-> TRUE, first |-> TRUE, n |-> 1, rounds |-> 0, raw |-> raw,
     gens |-> {gen}]

\* the assembly after one more accepted continuation
ContinuedAssembly(gen, xml, stillOpen) ==
    IF asm.open
    THEN [asm EXCEPT !.open = stillOpen, !.n = asm.n + 1,
                     !.rounds = asm.rounds + (IF stillOpen THEN 1 ELSE 0),
                     !.raw = asm.raw \o xml,
                     !.gens = asm.gens \cup {gen}]
    ELSE [open |-> stillOpen, first |-> FALSE, n |-> 1,
          rounds |-> IF stillOpen THEN 1 ELSE 0, raw |-> xml, gens |-> {gen}]

\* a variant of the validator that does not look at the ends of the edges
ValidatesParentsOnly(fullXml) ==
    LET cells == ParseCells(fullXml)
        ids == {cells[k].cell.id : k \in DOMAIN cells}
    IN  /\ \A k \in DOMAIN cells :
              /\ \A j \in 1..(k - 1) : cells[j].cell.id # cells[k].cell.id
              /\ cells[k].depth = 0
              /\ cells[k].cell.parent \in ids \/ cells[k].cell.id = <<"0">>

\* the validator (spec 4.5): the cells of the document one after the
\* other; an id seen before, a cell inside another cell, a parent, a
\* source or a target that is no id of the document reject it
ValidateDocument(fullXml) ==
    LET cells == ParseCells(fullXml)
        ids == {cells[k].cell.id : k \in DOMAIN cells}
    IN  /\ \A k \in DOMAIN cells :
              /\ \A j \in 1..(k - 1) : cells[j].cell.id # cells[k].cell.id
              /\ cells[k].depth = 0
              /\ cells[k].cell.parent \in ids \/ cells[k].cell.id = <<"0">>
              /\ cells[k].cell.source \in ids \cup {<<>>}
              /\ cells[k].cell.target \in ids \cup {<<>>}

\* what onDisplayChart may answer: it is a callback of the hook and accepts
\* a document or returns a validation error as the component that passes
\* it decides ("any"), or as the validator decides ("document")
Verdicts(validator, fullXml) ==
    IF validator = "document" THEN {ValidateDocument(fullXml)} ELSE BOOLEAN

\* handleDisplayDiagram from the completeness check to its end; xml is the
\* fragment after the cache replacement, raw the fragment as it arrived;
\* onDisplayChart accepts the wrapped document (valid) or returns an error
FinishDisplayWith(gen, raw, xml, validator) ==
    \E isTruncated \in {~IsMxCellXmlComplete(xml)} :
        IF isTruncated
        THEN /\ partialXml' = TruncatedBuffer(xml)
             /\ last' = [tool |-> "display_diagram", kind |-> "truncated",
                         state |-> "output-error",
                         quoted |-> PartialEnding(TruncatedBuffer(xml)),
                         handed |-> <<>>, arg |-> raw, gen |-> gen,
                         stale |-> partialXml # <<>>]
             /\ asm' = OpenedAssembly(gen, raw)
        ELSE \E valid \in Verdicts(validator, WrapWithMxFile(xml)) :
             /\ partialXml' = ResetBuffer
             /\ last' = [tool |-> "display_diagram",
                         kind |-> IF valid THEN "displayed" ELSE "validation_error",
                         state |-> IF valid THEN "output-available" ELSE "output-error",
                         quoted |-> <<>>, handed |-> HandedOn(xml), arg |-> raw,
                         gen |-> gen, stale |-> partialXml # <<>>]
             /\ asm' = [NoAssembly EXCEPT !.first = TRUE, !.raw = raw, !.gens = {gen}]

FinishDisplay(gen, raw, xml) == FinishDisplayWith(gen, raw, xml, "any")

AwaitingFetch(gen, raw) ==
    [tool |-> "display_diagram", kind |-> "awaiting_fetch", state |-> "none",
     quoted |-> <<>>, handed |-> <<>>, arg |-> raw, gen |-> gen, stale |-> FALSE]

\* handleDisplayDiagram up to its first await: without cache references the
\* handler runs to its end; with them it suspends at the fetch of the first key
DisplayDiagramWith(frags, gens, validator) ==
    \E xml \in frags, gen \in gens :
        \E cacheMatches \in {CacheMatches(xml)} :
            IF cacheMatches = <<>>
            THEN /\ FinishDisplayWith(gen, xml, xml, validator)
                 /\ UNCHANGED <<extractedRegionsCache, inflight, clockwork, editor, handled>>
            ELSE /\ Len(inflight) < MaxInflight
                 /\ inflight' = Append(inflight,
                        [gen |-> gen, raw |-> xml, xml |-> xml,
                         matches |-> cacheMatches,
                         keys |-> CacheKeysOf(cacheMatches, {})])
                 /\ last' = AwaitingFetch(gen, xml)
                 /\ UNCHANGED <<partialXml, extractedRegionsCache, asm, clockwork, editor, handled>>

DisplayDiagram(frags, gens) == DisplayDiagramWith(frags, gens, "any")

RemoveAt(seq, i) == SubSeq(seq, 1, i - 1) \o SubSeq(seq, i + 1, Len(seq))

\* handleDisplayDiagram resumed by the response of a fetch: the replacements
\* for that key, then the fetch of the next key or the rest of the handler
FetchReturns ==
    \E i \in 1..Len(inflight), netOk \in BOOLEAN :
        LET call == inflight[i]
            cacheKey == Head(call.keys)
            response == GetCachedRegions(cacheKey, netOk)
        IN  \E xml \in {IF response.ok
                        THEN ReplaceForKey(call.xml, call.matches, cacheKey,
                                           response.regions)
                        ELSE call.xml} :
             /\ extractedRegionsCache' =
                    IF netOk THEN StoreAfterRead(extractedRegionsCache, cacheKey)
                    ELSE extractedRegionsCache
             /\ UNCHANGED <<clockwork, editor, handled>>
             /\ IF Tail(call.keys) # <<>>
                THEN /\ inflight' = [inflight EXCEPT ![i] =
                                        [call EXCEPT !.xml = xml, !.keys = Tail(call.keys)]]
                     /\ last' = AwaitingFetch(call.gen, call.raw)
                     /\ UNCHANGED <<partialXml, asm>>
                ELSE /\ inflight' = RemoveAt(inflight, i)
                     /\ FinishDisplay(call.gen, call.raw, xml)

\* handleAppendDiagram; limit bounds the fragments the caller feeds one assembly
AppendDiagramWith(frags, gens, limit, validator) ==
    \E xml \in frags, gen \in gens :
        IF IsFreshStart(xml)
        THEN /\ partialXml' = RejectedBuffer(partialXml, xml)
             /\ last' = [tool |-> "append_diagram", kind |-> "fresh_start",
                         state |-> "output-error",
                         quoted |-> PartialEnding(RejectedBuffer(partialXml, xml)),
                         handed |-> <<>>, arg |-> xml, gen |-> gen, stale |-> FALSE]
             /\ UNCHANGED <<extractedRegionsCache, inflight, asm, clockwork, editor, handled>>
        ELSE /\ asm.n < limit \/ ~asm.open
             /\ \E buffer \in {AppendedBuffer(partialXml, xml)} :
                \E isComplete \in {IsMxCellXmlComplete(buffer)} :
                    IF isComplete
                    THEN \E valid \in Verdicts(validator, WrapWithMxFile(buffer)) :
                         /\ partialXml' = ResetBuffer
                         /\ last' = [tool |-> "append_diagram",
                                     kind |-> IF valid THEN "displayed"
                                              ELSE "validation_error",
                                     state |-> IF valid THEN "output-available"
                                               ELSE "output-error",
                                     quoted |-> <<>>, handed |-> HandedOn(buffer),
                                     arg |-> xml, gen |-> gen, stale |-> FALSE]
                         /\ asm' = ContinuedAssembly(gen, xml, FALSE)
                    ELSE /\ partialXml' = buffer
                         /\ last' = [tool |-> "append_diagram",
                                     kind |-> "still_incomplete",
                                     state |-> "output-error",
                                     quoted |-> PartialEnding(buffer),
                                     handed |-> <<>>, arg |-> xml, gen |-> gen, stale |-> FALSE]
                         /\ asm' = ContinuedAssembly(gen, xml, TRUE)
             /\ UNCHANGED <<extractedRegionsCache, inflight, clockwork, editor, handled>>

AppendDiagram(frags, gens, limit) == AppendDiagramWith(frags, gens, limit, "any")

\* handleDisplayDiagram when onDisplayChart throws: lines 250-257 are in no
\* try block, so the handler ends at the call, after the buffer was reset
\* and before any addToolOutput
DisplayDiagramThrows(frags, gens) ==
    \E xml \in frags, gen \in gens :
        /\ CacheMatches(xml) = <<>>
        /\ IsMxCellXmlComplete(xml)
        /\ partialXml' = ResetBuffer
        /\ last' = [tool |-> "display_diagram", kind |-> "thrown", state |-> "none",
                    quoted |-> <<>>, handed |-> HandedOn(xml), arg |-> xml,
                    gen |-> gen, stale |-> partialXml # <<>>]
        /\ asm' = [NoAssembly EXCEPT !.first = TRUE, !.raw = xml, !.gens = {gen}]
        /\ UNCHANGED <<extractedRegionsCache, inflight, clockwork, editor, handled>>

\* handleAppendDiagram when onDisplayChart throws: lines 456-462 are in no
\* try block either
AppendDiagramThrows(frags, gens, limit) ==
    \E xml \in frags, gen \in gens :
        /\ ~IsFreshStart(xml)
        /\ asm.n < limit \/ ~asm.open
        /\ IsMxCellXmlComplete(AppendedBuffer(partialXml, xml))
        /\ partialXml' = ResetBuffer
        /\ last' = [tool |-> "append_diagram", kind |-> "thrown", state |-> "none",
                    quoted |-> <<>>, handed |-> HandedOn(AppendedBuffer(partialXml, xml)),
                    arg |-> xml, gen |-> gen, stale |-> FALSE]
        /\ asm' = ContinuedAssembly(gen, xml, FALSE)
        /\ UNCHANGED <<extractedRegionsCache, inflight, clockwork, editor, handled>>

(***************************************************************************)
(* Specifications.                                                         *)
(***************************************************************************)
\* the caller lets one tool call finish before it delivers the next
Idle == inflight = <<>>

DisplayCall == Idle /\ DisplayDiagram(Fragments, {"A"})

AppendCall == Idle /\ AppendDiagram(Fragments, {"A"}, MaxFragments)

Next ==
    \/ DisplayCall
    \/ FetchReturns
    \/ AppendCall
    \/ ExtractImageRegions
    \/ ExpireRegions

Spec == Init /\ [][Next]_vars

\* one caller that keeps continuing an assembly, up to MaxRounds fragments
FirstCall == Idle /\ DisplayDiagram(FirstFragments, {"A"})

SlowAppendCall == Idle /\ AppendDiagram(SlowFragments, {"A"}, MaxRounds)

NextRounds ==
    \/ FirstCall
    \/ FetchReturns
    \/ SlowAppendCall
    \/ ExtractImageRegions
    \/ ExpireRegions

SpecRounds == Init /\ [][NextRounds]_vars

\* display_diagram calls on documents with cache references
ResolverCall == Idle /\ DisplayDiagram(ResolverFragments, {"A"})

NextResolver ==
    \/ ResolverCall
    \/ FetchReturns
    \/ ExtractImageRegions
    \/ ExpireRegions

SpecResolver == Init /\ [][NextResolver]_vars

\* the server alone: entries, their timers, the clock and the lookups
NextStore ==
    \/ ExtractImageRegionsAt
    \/ TimerFires
    \/ Tick
    \/ PostGetCachedRegions

SpecStore == Init /\ [][NextStore]_vars

\* the clamping of the regions of the requests
NextClamp == ClampRegion

SpecClamp == InitClamp /\ [][NextClamp]_vars

\* the chat route alone
NextChat == HandleChatRequest

SpecChat == Init /\ [][NextChat]_vars

\* the server with extractions of which some regions fail
NextExtract ==
    \/ ExtractRegions
    \/ TimerFires
    \/ Tick

SpecExtract == Init /\ [][NextExtract]_vars

\* edit_diagram calls, some of them streamed before they are handled, each
\* handled after the output of the one before went back
NextEdit ==
    \/ CaptureOriginal
    \/ HandleEditDiagram
    \/ OutputSent

SpecEdit == Init /\ [][NextEdit]_vars

\* edit_diagram calls on any document, none of them streamed
NextPatch ==
    \/ EditDiagram(PatchBatches)
    \/ OutputSent

SpecPatch == InitPatch /\ [][NextPatch]_vars

\* texts cut at every position, displayed and continued
CutDisplay == DisplayDiagram(CutFragments, {"A"})

PieceAppend == AppendDiagram(PieceFragments, {"A"}, MaxFragments)

NextDetector ==
    \/ CutDisplay
    \/ PieceAppend

SpecDetector == Init /\ [][NextDetector]_vars

\* whole documents, valid and invalid, displayed through the validator
ValidatedDisplay == DisplayDiagramWith(DocumentTexts, {"A"}, "document")

ValidatedAppend ==
    AppendDiagramWith(ContinuationTexts, {"A"}, MaxFragments, "document")

NextValidator ==
    \/ ValidatedDisplay
    \/ ValidatedAppend

SpecValidator == Init /\ [][NextValidator]_vars

\* handleToolCall with the three tools; the callbacks return or throw
BoundaryTexts == {CellText(TextA), CutText(TextA), CutText(TextB)}

BoundaryContinuations == {<<"/", ">">>, CellText(TextB), CutText(TextB), ScaffoldHead}

BoundaryBatches ==
    {<<Op("delete", "2", NoPayload)>>, <<Op("update", "6", CellN2)>>}

BoundaryDisplay == DisplayDiagram(BoundaryTexts, {"A"})

BoundaryDisplayThrows == DisplayDiagramThrows(BoundaryTexts, {"A"})

BoundaryAppend == AppendDiagram(BoundaryContinuations, {"A"}, MaxFragments)

BoundaryAppendThrows == AppendDiagramThrows(BoundaryContinuations, {"A"}, MaxFragments)

BoundaryEdit == EditDiagram(BoundaryBatches)

HandleToolCall ==
    \/ BoundaryDisplay
    \/ BoundaryDisplayThrows
    \/ BoundaryAppend
    \/ BoundaryAppendThrows
    \/ BoundaryEdit

NextBoundary ==
    \/ HandleToolCall
    \/ OutputSent

SpecBoundary == Init /\ [][NextBoundary]_vars

\* experimental_repairToolCall for a tool call whose input is no JSON:
\* the repaired input when jsonrepair succeeds, else the placeholder of the
\* tool
RepairToolCall(toolName, input, repairs) ==
    IF repairs THEN input
    ELSE IF toolName = "edit_diagram" THEN [operations |-> <<>>]
    ELSE [xml |-> <<>>]

\* tool calls cut by the output limit, repaired or replaced by the
\* placeholder, and then handled by the client
RepairedDisplay ==
    \E xml \in BoundaryTexts, repairs \in BOOLEAN :
        DisplayDiagramWith(
            {RepairToolCall("display_diagram", [xml |-> xml], repairs).xml},
            {"A"}, "document")

RepairedEdit ==
    \E operations \in BoundaryBatches, repairs \in BOOLEAN :
        EditDiagram({RepairToolCall("edit_diagram", [operations |-> operations],
                                    repairs).operations})

RepairedAppend == AppendDiagramWith(BoundaryContinuations, {"A"}, MaxFragments, "document")

NextRepair ==
    \/ RepairedDisplay
    \/ RepairedEdit
    \/ RepairedAppend
    \/ CaptureOriginal
    \/ OutputSent

SpecRepair == Init /\ [][NextRepair]_vars

\* two generations whose calls reach the handlers in any order, a call also
\* while a display_diagram call is suspended on its fetch (handleToolCall
\* holds no lock and the buffer belongs to the hook, not to a generation)
InterleavedDisplay == DisplayDiagram(InterleavedFragments, Generations)

InterleavedAppend == AppendDiagram(InterleavedFragments, Generations, MaxFragments)

NextInterleaved ==
    \/ InterleavedDisplay
    \/ FetchReturns
    \/ InterleavedAppend
    \/ ExtractImageRegions
    \/ ExpireRegions

SpecInterleaved == Init /\ [][NextInterleaved]_vars


(***************************************************************************)
(* Properties of the handlers.                                             *)
(***************************************************************************)
ScaffoldMarkers == {MxGraphModelTag, RootTag, MxfileTag, MxCellId0, MxCellId1}

\* f, after its leading white space, begins with a scaffold marker
BeginsWithMarker(f) ==
    \E k \in 0..Len(f), m \in ScaffoldMarkers :
        /\ \A i \in 1..k : IsSpace(f[i])
        /\ k + Len(m) <= Len(f)
        /\ SubSeq(f, k + 1, k + Len(m)) = m

IsSuffix(t, s) == Len(t) <= Len(s) /\ SubSeq(s, Len(s) - Len(t) + 1, Len(s)) = t

\* a step of append_diagram with argument last'.arg
AppendStep ==
    /\ last'.tool = "append_diagram"
    /\ UNCHANGED <<inflight, extractedRegionsCache>>

\* the texts the cache replacement can make of a fragment: per key of the
\* fragment, the lookup fails or returns a mapping the store can hold
RECURSIVE ResolutionsFrom(_, _, _)
ResolutionsFrom(xml, matches, keys) ==
    IF keys = <<>> THEN {xml}
    ELSE UNION { ResolutionsFrom(x, matches, Tail(keys)) :
                 x \in {xml} \cup
                       { ReplaceForKey(xml, matches, Head(keys), m) :
                         m \in IF Head(keys) \in CacheKeys THEN RegionMappings ELSE {} } }

Resolutions(f) == ResolutionsFrom(f, CacheMatches(f), CacheKeysOf(CacheMatches(f), {}))

DisplayReturned == last.tool = "display_diagram" /\ last.kind # "awaiting_fetch"

\* C1: an append_diagram call whose trimmed fragment begins with a scaffold
\* marker or a reserved root cell returns an error output, hands nothing to
\* the display and leaves the buffer as it was before the call.
FreshStartLeavesBuffer ==
    [][AppendStep /\ BeginsWithMarker(last'.arg)
        => /\ partialXml' = partialXml
           /\ last'.state = "output-error"
           /\ last'.handed = <<>>
           /\ asm' = asm]_vars

\* a fresh start with leading white space was rejected while text was pending
FreshStartRejectedWitness ==
    /\ last.tool = "append_diagram"
    /\ last.kind = "fresh_start"
    /\ IsSpace(Head(last.arg))
    /\ partialXml # <<>>
    /\ last.state = "output-error"

\* C2: when display_diagram finds its fragment complete, the buffer is empty
\* after the call, no assembly is open, and the fragment (its cache references
\* replaced) is wrapped and handed to the display in that call.
CompleteDisplayClearsBuffer ==
    (DisplayReturned /\ \A r \in Resolutions(last.arg) : IsMxCellXmlComplete(r))
    => /\ partialXml = <<>>
       /\ ~asm.open
       /\ last.kind \in {"displayed", "validation_error"}
       /\ \E r \in Resolutions(last.arg) : last.handed = <<WrapWithMxFile(r)>>

\* a complete fragment with a cache reference was displayed
CompleteDisplayWitness ==
    /\ DisplayReturned
    /\ last.kind = "displayed"
    /\ last.arg \in CacheFragments
    /\ last.handed # <<WrapWithMxFile(last.arg)>>
    /\ partialXml = <<>>


\* C3: when display_diagram finds its fragment incomplete, the buffer holds
\* exactly the fragment the call was given, an assembly is open, the output is
\* the truncation error and nothing is handed to the display.
TruncatedDisplayStoresFragment ==
    (DisplayReturned /\ \A r \in Resolutions(last.arg) : ~IsMxCellXmlComplete(r))
    => /\ partialXml = last.arg
       /\ asm.open
       /\ last.kind = "truncated"
       /\ last.state = "output-error"
       /\ last.handed = <<>>

\* C4: an append_diagram call that is no fresh start and leaves the whole
\* buffer incomplete makes the buffer the old buffer followed by the fragment
\* as given, keeps the assembly open and returns the still-incomplete error.
AppendIsVerbatim ==
    [][(/\ AppendStep
        /\ ~BeginsWithMarker(last'.arg)
        /\ ~IsMxCellXmlComplete(partialXml \o last'.arg))
        => /\ partialXml' = partialXml \o last'.arg
           /\ asm'.open
           /\ last'.kind = "still_incomplete"
           /\ last'.state = "output-error"
           /\ last'.handed = <<>>]_vars

\* a continuation that ends with white space was appended to pending text
AppendIsVerbatimWitness ==
    /\ last.tool = "append_diagram"
    /\ last.kind = "still_incomplete"
    /\ last.arg # <<>>
    /\ IsSpace(last.arg[Len(last.arg)])
    /\ Len(partialXml) > Len(last.arg)
    /\ IsSuffix(last.arg, partialXml)

\* C5: an append_diagram call that is no fresh start and makes the whole
\* buffer complete empties the buffer, closes the assembly and hands the
\* wrapped whole buffer to the display, whatever the validation answers.
CompleteAppendClearsBuffer ==
    [][(/\ AppendStep
        /\ ~BeginsWithMarker(last'.arg)
        /\ IsMxCellXmlComplete(partialXml \o last'.arg))
        => /\ partialXml' = <<>>
           /\ ~asm'.open
           /\ last'.kind \in {"displayed", "validation_error"}
           /\ last'.handed = <<WrapWithMxFile(partialXml \o last'.arg)>>]_vars

\* a continuation completed pending text and the validation refused the whole
CompleteAppendWitness ==
    /\ last.tool = "append_diagram"
    /\ last.kind = "validation_error"
    /\ partialXml = <<>>
    /\ asm.first
    /\ asm.n > 1
    /\ last.handed # <<WrapWithMxFile(last.arg)>>

\* C6: the resumption point quoted in a truncation, still-incomplete or
\* fresh-start error is the trailing slice of the buffer as the call leaves it.
QuotedIsBufferEnding ==
    last.kind \in {"truncated", "still_incomplete", "fresh_start"}
    => /\ IsSuffix(last.quoted, partialXml)
       /\ Len(last.quoted) = IF Len(partialXml) <= SliceLen THEN Len(partialXml)
                             ELSE SliceLen

\* an error quoted the end of a buffer longer than the quoted slice
QuotedIsBufferEndingWitness ==
    /\ last.kind = "still_incomplete"
    /\ Len(partialXml) > SliceLen
    /\ Len(last.quoted) = SliceLen
    /\ IsSuffix(last.quoted, partialXml)
    /\ ~StartsWith(partialXml, last.quoted)

\* C7: when the fragments of an assembly (a display_diagram fragment and the
\* accepted continuations) hold no cache reference, the document handed to the
\* display is the one display_diagram hands on for their concatenation.
AssemblyEqualsDirect ==
    (last.handed # <<>> /\ asm.first /\ CacheMatches(asm.raw) = <<>>)
    => /\ IsMxCellXmlComplete(asm.raw)
       /\ last.handed = <<WrapWithMxFile(asm.raw)>>

\* an assembly of several fragments without cache reference was handed on
AssemblyEqualsDirectWitness ==
    /\ last.tool = "append_diagram"
    /\ last.handed # <<>>
    /\ asm.first
    /\ asm.n > 1
    /\ CacheMatches(asm.raw) = <<>>
    /\ asm.raw # last.arg


\* C8: the continuation rounds of one assembly that leave the buffer
\* incomplete are bounded: not more of them are accepted than the step count
\* of the chat route, the one bound on rounds the program holds.
ContinuationRoundsBounded == asm.open => asm.rounds <= StepCount

\* C9: the document handed to the display holds the fragments of one
\* generation only.
DocumentOfOneGeneration == last.handed # <<>> => Cardinality(asm.gens) = 1

\* C10: while a display_diagram call is suspended on its fetch, no other call
\* changes the buffer.
BufferUntouchedWhileSuspended ==
    [][(inflight # <<>> /\ Len(inflight') >= Len(inflight))
        => partialXml' = partialXml]_vars

\* C11: after a display_diagram call, complete or truncated, the buffer holds
\* no text from before the call: it is empty or the fragment of this call (its
\* cache references replaced), and the assembly holds this fragment alone.
DisplayDropsPendingText ==
    DisplayReturned
    => /\ partialXml \in {<<>>} \cup Resolutions(last.arg)
       /\ asm.raw = last.arg
       /\ asm.n <= 1

\* a truncated display_diagram call replaced text that was pending
DisplayDropsPendingWitness ==
    /\ DisplayReturned
    /\ last.stale
    /\ last.kind = "truncated"
    /\ partialXml = last.arg


\* the references of a text that the store resolves
ResolvableIn(xml, store) ==
    { i \in 1..Len(CacheMatches(xml)) :
        LET m == CacheMatches(xml)[i]
        IN  m.key \in DOMAIN store /\ m.region \in DOMAIN store[m.key] }

\* a handler step (the store stays as it is) that hands a document on
HandingStep == extractedRegionsCache' = extractedRegionsCache /\ last'.handed # <<>>

\* C12: a document handed to the wrapper and the display, by display_diagram
\* or by append_diagram, holds no cache reference that the store resolves at
\* the time of the call.
FinalDocumentResolved ==
    [][HandingStep
        => ResolvableIn(last'.handed[1], extractedRegionsCache) = {}]_vars


\* the number of style separators in a text
Separators(t) == Cardinality({i \in 1..Len(t) : t[i] = ";"})

\* the text a returned display_diagram call stored or handed on
DisplayResult == IF last.handed # <<>> THEN last.handed[1] ELSE partialXml

\* C13: the payload the cache replacement inserts holds no literal ";": the
\* text display_diagram stores or hands on has the separators of the fragment
\* it was given and no more, whatever payloads the store holds.
SubstitutionAddsNoSeparator ==
    DisplayReturned => Separators(DisplayResult) = Separators(last.arg)

\* a payload with two separators was substituted, both of them encoded
SubstitutionWitness ==
    /\ DisplayReturned
    /\ last.kind = "truncated"
    /\ partialXml # last.arg
    /\ IndexOf(partialXml, <<"d", "%", "3", "B", "b", "%", "3", "B">>) > 0


\* the text with each reference that the store resolves replaced, where it
\* stands, by image= and its encoded payload, every other character kept
RECURSIVE ResolvedInPlace(_, _, _)
ResolvedInPlace(xml, i, store) ==
    LET starts == {j \in i..Len(xml) : CacheMatchAt(xml, j) # NoMatch}
    IN  IF starts = {} THEN SubSeq(xml, i, Len(xml))
        ELSE LET j == Least(starts)
                 m == CacheMatchAt(xml, j)
             IN  SubSeq(xml, i, j - 1)
                 \o (IF m.key \in DOMAIN store /\ m.region \in DOMAIN store[m.key]
                     THEN ImagePrefix \o EncodeSemicolons(store[m.key][m.region])
                     ELSE SubSeq(xml, j, m.end))
                 \o ResolvedInPlace(xml, m.end + 1, store)

\* a handler step (the store stays as it is) in which display_diagram returns
DisplayReturns ==
    /\ extractedRegionsCache' = extractedRegionsCache
    /\ last'.tool = "display_diagram"
    /\ last'.kind # "awaiting_fetch"

\* the text display_diagram leaves in that step is the one made of t
DisplayLeaves(t) ==
    IF last'.handed # <<>> THEN last'.handed = <<WrapWithMxFile(t)>>
    ELSE partialXml' = t

\* C14: the cache replacement puts the payload of every reference that the
\* store resolves in the place of that reference (or, when the lookup fails,
\* leaves the text as it was).
SubstitutionInPlace ==
    [][DisplayReturns
        => \/ DisplayLeaves(last'.arg)
           \/ DisplayLeaves(ResolvedInPlace(last'.arg, 1, extractedRegionsCache))]_vars


\* the store cut down to the keys whose lookup succeeds
Answered(store, keys) == [k \in keys |-> store[k]]

\* C15: a key that is not stored, a lookup that fails or a region missing from
\* a mapping leaves the references that name it as they are and no others:
\* display_diagram goes on to its completeness check with every reference
\* substituted whose key was looked up and whose region the mapping holds.
PartialTolerance ==
    [][DisplayReturns
        => /\ last'.kind \in {"truncated", "displayed", "validation_error"}
           /\ \E keys \in SUBSET DOMAIN extractedRegionsCache :
                 DisplayLeaves(ResolvedInPlace(last'.arg, 1,
                                   Answered(extractedRegionsCache, keys)))]_vars


\* the references of a text that the store does not resolve
UnresolvedIn(xml, store) == (1..Len(CacheMatches(xml))) \ ResolvableIn(xml, store)

\* C16: when display_diagram displays a document, its output lists the
\* references of the document that were not resolved, one entry for each.
UnresolvedListReported ==
    [][(DisplayReturns /\ last'.kind = "displayed")
        => Len(UnresolvedReported(last'))
               = Cardinality(UnresolvedIn(last'.arg, extractedRegionsCache))]_vars


(***************************************************************************)
(* The region cache on the server                                          *)
(***************************************************************************)
\* a step of the server in which no entry is created, no timer runs and no
\* time passes: a request to get-cached-regions, or nothing
ReadStep == UNCHANGED <<now, timers>>

\* C17: a get-cached-regions request, whether its body is a stored key, an
\* unknown key, an empty key or no JSON, leaves the store as it was, and every
\* successful read of a key, however often repeated, returns the mapping
\* that was stored when the key was created.
ReadsLeaveStore ==
    [][ReadStep =>
          /\ extractedRegionsCache' = extractedRegionsCache
          /\ reply'.status = 200 =>
                /\ reply'.key \in DOMAIN timers
                /\ reply'.regions = timers[reply'.key].stored]_vars

\* a key read twice in a row with the other requests in between answered
\* before, the entry still stored with the mapping of its creation
ReadsLeaveStoreWitness ==
    /\ reply.status = 200
    /\ reply.reads >= 2
    /\ reply.key \in DOMAIN extractedRegionsCache
    /\ extractedRegionsCache[reply.key] = timers[reply.key].stored
    /\ reply.regions = timers[reply.key].stored

\* C18: an entry leaves the store only in a step of its own timer, which
\* runs no earlier than Ttl = 10 minutes after the entry was created; until
\* then the entry is stored, whatever requests are served and whichever
\* other timers run; once its timer has run, a lookup of the key is
\* answered 404.
ExpiryOnly ==
    [][/\ \A k \in DOMAIN extractedRegionsCache :
             k \notin DOMAIN extractedRegionsCache' =>
                /\ k \in DOMAIN timers
                /\ ~timers[k].fired /\ timers'[k].fired
                /\ now >= timers[k].created + 10 * 60 * 1000
       /\ \A k \in DOMAIN timers' :
             ~timers'[k].fired =>
                /\ k \in DOMAIN extractedRegionsCache'
                /\ extractedRegionsCache'[k] = timers'[k].stored
       /\ (/\ ReadStep
           /\ reply' # reply
           /\ reply'.key \in DOMAIN timers
           /\ timers[reply'.key].fired) => reply'.status = 404]_vars

\* one entry has expired and its lookup was answered 404 while a younger
\* entry is still stored
ExpiryOnlyWitness ==
    \E k \in DOMAIN timers, j \in DOMAIN timers :
        /\ k # j
        /\ timers[k].fired /\ ~timers[j].fired
        /\ timers[j].created > timers[k].created
        /\ j \in DOMAIN extractedRegionsCache
        /\ reply.status = 404 /\ reply.key = k

(***************************************************************************)
(* edit_diagram                                                            *)
(***************************************************************************)
\* a step in which handleEditDiagram handles a call
EditStep == edited = NoEdit /\ edited' # NoEdit

\* the document after the first k operations of a batch, the failing ones
\* left out
RECURSIVE WorkingDoc(_, _, _)
WorkingDoc(doc, operations, k) ==
    IF k = 0 THEN doc
    ELSE ApplyOperation(WorkingDoc(doc, operations, k - 1), operations[k]).doc

\* the positions of the operations of a batch that fail
Failing(doc, operations) ==
    {i \in DOMAIN operations :
        ApplyOperation(WorkingDoc(doc, operations, i - 1), operations[i]).error # NoError}

\* the j-th smallest member of a set of positions
Nth(F, j) == CHOOSE i \in F : Cardinality({k \in F : k < i}) = j - 1

\* C19: when an operation of an edit_diagram batch fails, the document on
\* the canvas after the call is the one before it, neither onDisplayChart
\* nor onExport is called, and the error output carries the original
\* document, the one the operations were applied to.
RejectedBatchIsAtomic ==
    [][(EditStep /\ Failing(CurrentXml(edited'.id), edited'.operations) # {}) =>
          /\ chartXML' = chartXML
          /\ ~Called(edited'.calls, "onDisplayChart")
          /\ ~Called(edited'.calls, "onExport")
          /\ edited'.state = "output-error"
          /\ edited'.current = CurrentXml(edited'.id)]_vars

\* a valid add followed by an operation that fails: the added cell is not
\* on the canvas
RejectedBatchWitness ==
    /\ edited.kind = "operations"
    /\ Len(edited.operations) = 2
    /\ edited.operations[1] = Op("add", "6", CellN)
    /\ Failing(edited.current, edited.operations) = {2}
    /\ "6" \notin Ids(chartXML)
    /\ edited.current = chartXML

\* C20: the error output of a rejected batch has one line for each failing
\* operation and no other line, in the order of the operations, each with
\* the type and the cell id of its operation; a batch is rejected exactly
\* when an operation fails.
DiagnosticsAreComplete ==
    edited.kind \in {"operations", "applied", "invalid"} =>
        LET F == Failing(edited.current, edited.operations)
        IN  /\ edited.kind = "operations" <=> F # {}
            /\ Len(edited.errors) = Cardinality(F)
            /\ \A j \in 1..Len(edited.errors) :
                  /\ edited.errors[j][1] = edited.operations[Nth(F, j)].operation
                  /\ edited.errors[j][2] = edited.operations[Nth(F, j)].cell_id

\* two operations failed, one did not: two lines
DiagnosticsWitness ==
    /\ edited.kind = "operations"
    /\ Len(edited.errors) = 2
    /\ edited.errors[1] # edited.errors[2]
    /\ Cardinality(Failing(edited.current, edited.operations)) = 2

(***************************************************************************)
(* The patch engine on any document                                        *)
(***************************************************************************)
\* a set of ids that holds, with an id, every cell whose parent it is and
\* every edge it is an end of
ClosedUnderCascade(doc, S) ==
    \A c \in doc :
        (c.parent \in S \/ c.source \in S \/ c.target \in S) => c.id \in S

\* the ids that are in every such set that holds id
LeastClosed(doc, id) ==
    {i \in Ids(doc) \cup {id} :
        \A S \in SUBSET (Ids(doc) \cup {id}) :
            (id \in S /\ ClosedUnderCascade(doc, S)) => i \in S}

\* the call handled last applied one delete and the canvas took the result
DeletedOne ==
    /\ edited.kind = "applied"
    /\ Len(edited.operations) = 1
    /\ edited.operations[1].operation = "delete"

\* C21: a delete of an id that is in the document removes the cells of the
\* least set that holds the id and is closed under "child of a member" and
\* "edge with an end that is a member", and no other cell, also when the
\* parents form a cycle; a delete of an id in the document does not fail.
DeleteRemovesCascade ==
    /\ DeletedOne =>
          chartXML = {c \in edited.current :
                        c.id \notin LeastClosed(edited.current, edited.operations[1].cell_id)}
    /\ (/\ edited.kind = "operations"
        /\ Len(edited.operations) = 1
        /\ edited.operations[1].operation = "delete")
          => edited.operations[1].cell_id \notin Ids(edited.current)

\* a delete in a document whose container and child are each other's
\* parent, with an edge on the child: the three are removed, a fourth stays
DeleteRemovesCascadeWitness ==
    /\ DeletedOne
    /\ edited.current = {CellPc, CellC, CellE, CellX}
    /\ edited.operations[1].cell_id = "2"
    /\ chartXML = {CellX}

\* the ids the i-th operation of a batch removes: those of its cascade when
\* it is a delete of an id the document then holds
RemovedBy(doc, operations, i) ==
    LET working == WorkingDoc(doc, operations, i - 1)
    IN  IF operations[i].operation = "delete" /\ operations[i].cell_id \in Ids(working)
        THEN LeastClosed(working, operations[i].cell_id)
        ELSE {}

\* a delete of the batch removes an id that an update or a delete later in
\* the batch targets, no add of the id between the two
TargetsRemoved(doc, operations) ==
    \E i \in DOMAIN operations, j \in DOMAIN operations :
        /\ i < j
        /\ operations[j].operation \in {"update", "delete"}
        /\ operations[j].cell_id \in RemovedBy(doc, operations, i)
        /\ \A k \in (i + 1)..(j - 1) :
              ~(operations[k].operation = "add" /\ operations[k].cell_id = operations[j].cell_id)

DeletesOfPresentIds ==
    /\ edited.kind \in {"operations", "applied", "invalid"}
    /\ \A k \in DOMAIN edited.operations :
          /\ edited.operations[k].operation = "delete"
          /\ edited.operations[k].cell_id \in Ids(edited.current)

\* the ids the deletes of the batch remove when each cascade is taken in
\* the original document
UnionOfCascades(doc, operations) ==
    UNION {LeastClosed(doc, operations[k].cell_id) : k \in DOMAIN operations}

HandledOne(type) ==
    /\ edited.kind \in {"operations", "applied", "invalid"}
    /\ Len(edited.operations) = 1
    /\ edited.operations[1].operation = type
    /\ edited.operations[1].new_xml # Malformed
    /\ edited.operations[1].new_xml.id = edited.operations[1].cell_id

\* no two cells of the document have the same id
UniqueIds(doc) == \A c \in doc, d \in doc : c.id = d.id => c = d

\* C24: an add of an id the document holds fails with DuplicateId; an add
\* of any other id inserts the payload cell and changes nothing else; the
\* same id added twice in one batch fails; no document on the canvas holds
\* an id twice.
AddInsertsOrFails ==
    /\ UniqueIds(chartXML)
    /\ HandledOne("add") =>
          IF edited.operations[1].cell_id \in Ids(edited.current)
          THEN /\ edited.kind = "operations"
               /\ edited.errors = <<<<"add", edited.operations[1].cell_id, "DuplicateId">>>>
          ELSE /\ edited.kind # "operations"
               /\ edited.kind = "applied" =>
                     chartXML = edited.current \cup {edited.operations[1].new_xml}
    /\ (/\ edited.kind \in {"operations", "applied", "invalid"}
        /\ \E i \in DOMAIN edited.operations, j \in DOMAIN edited.operations :
              /\ i < j
              /\ edited.operations[i].operation = "add"
              /\ edited.operations[j].operation = "add"
              /\ edited.operations[i].cell_id = edited.operations[j].cell_id
              /\ \A k \in (i + 1)..(j - 1) : edited.operations[k].operation # "delete")
          => edited.kind = "operations"

\* an add of a cell whose id the original document holds was rejected with
\* DuplicateId, after the same add had been applied by an earlier call
AddInsertsOrFailsWitness ==
    /\ HandledOne("add")
    /\ edited.kind = "operations"
    /\ edited.errors = <<<<"add", "6", "DuplicateId">>>>
    /\ CellN \in chartXML
    /\ edited.current = chartXML

\* C25: an update of an id the document does not hold fails with
\* UnknownCell; an update of any other id puts the payload cell in the place
\* of the old cell: the source and the target of the old cell, which the
\* payload does not name, are gone, every other cell is as it was and the
\* number of cells is the same.
UpdateReplacesOrFails ==
    HandledOne("update") =>
        IF edited.operations[1].cell_id \notin Ids(edited.current)
        THEN /\ edited.kind = "operations"
             /\ edited.errors = <<<<"update", edited.operations[1].cell_id, "UnknownCell">>>>
        ELSE /\ edited.kind # "operations"
             /\ edited.kind = "applied" =>
                   /\ edited.operations[1].new_xml \in chartXML
                   /\ \A c \in chartXML :
                         c.id = edited.operations[1].cell_id =>
                            c = edited.operations[1].new_xml
                   /\ {c \in chartXML : c.id # edited.operations[1].cell_id}
                        = {c \in edited.current : c.id # edited.operations[1].cell_id}
                   /\ Cardinality(chartXML) = Cardinality(edited.current)

\* the edge from the child to the fourth cell was updated with a payload
\* that names no ends: the cell on the canvas has none
UpdateReplacesWitness ==
    /\ HandledOne("update")
    /\ edited.kind = "applied"
    /\ CellE \in edited.current
    /\ CellE2 \in chartXML
    /\ \A c \in chartXML : c.id = "4" => c.source = "" /\ c.target = ""

(***************************************************************************)
(* The completeness check on cut texts                                     *)
(***************************************************************************)
\* the positions of a sequence of elements at which every element before is
\* whole
Boundaries(D) == {Len(Flatten(SubSeq(D, 1, k))) : k \in 0..Len(D)}

\* the text is the cut of a well-formed sequence at a position that is no
\* element boundary: inside a tag, inside a quoted value or inside an open
\* element
CutInside(text) ==
    \E D \in DetectorDocs :
        \E n \in (0..Len(Flatten(D))) \ Boundaries(D) : text = SubSeq(Flatten(D), 1, n)

\* the text is the cut of a well-formed sequence at an element boundary
CutAtBoundary(text) ==
    \E D \in DetectorDocs :
        \E n \in Boundaries(D) : text = SubSeq(Flatten(D), 1, n)

\* C26: display_diagram takes a text for truncated, and append_diagram the
\* buffer for still incomplete, exactly when the text is cut inside a tag,
\* inside a quoted value or inside an open element, and for complete when
\* it ends at an element boundary; angle brackets and "/>" inside a quoted
\* value do not change that.
DetectorDecides ==
    /\ (last.tool = "display_diagram" /\ CutInside(last.arg)) => last.kind = "truncated"
    /\ (last.tool = "display_diagram" /\ CutAtBoundary(last.arg))
          => last.kind \in {"displayed", "validation_error"}
    /\ (last.tool = "append_diagram" /\ last.kind # "fresh_start" /\ CutInside(asm.raw))
          => last.kind = "still_incomplete"
    /\ (last.tool = "append_diagram" /\ last.kind # "fresh_start" /\ CutAtBoundary(asm.raw))
          => last.kind \in {"displayed", "validation_error"}

\* a text cut right after the ">" inside a quoted value was taken for
\* truncated
DetectorCutWitness ==
    /\ last.tool = "display_diagram"
    /\ last.kind = "truncated"
    /\ last.arg = CellOpen \o <<" ", "v", "a", "l", "u", "e", "=", "\"", "a", ">">>

(***************************************************************************)
(* The wrapper and the validator                                           *)
(***************************************************************************)
\* the handler that ran last handed a document on and it was accepted
Accepted == last.kind = "displayed" /\ last.handed # <<>>

\* some cell of the sequence has the id
Defines(cells, id) == \E j \in DOMAIN cells : cells[j].cell.id = id

\* the document invariant on the cells of a text
DocumentInvariant(cells) ==
    /\ \A j \in DOMAIN cells, k \in DOMAIN cells :
          cells[j].cell.id = cells[k].cell.id => j = k
    /\ \A k \in DOMAIN cells :
          /\ cells[k].cell.parent # <<>> => Defines(cells, cells[k].cell.parent)
          /\ cells[k].cell.source # <<>> => Defines(cells, cells[k].cell.source)
          /\ cells[k].cell.target # <<>> => Defines(cells, cells[k].cell.target)

\* the text holds the edge whose target no document defines
HasDanglingEdge(text) ==
    \E k \in DOMAIN ParseCells(text) : ParseCells(text)[k].cell = TextDangling

\* C27: in a document the validator accepted no id occurs twice and every
\* parent, source and target is the id of a scaffold cell or of a cell of
\* the document; a document with an edge to a cell that was never defined
\* is rejected, and what was handed to the validator is the wrapped text as
\* it came, the edge still in it.
AcceptedIsConsistent ==
    /\ Accepted => DocumentInvariant(ParseCells(last.handed[1]))
    /\ (last.kind \in {"displayed", "validation_error"} /\ last.handed # <<>>
          /\ HasDanglingEdge(last.handed[1]))
          => /\ last.kind = "validation_error"
             /\ last.state = "output-error"
             /\ last.tool = "display_diagram" => last.handed[1] = WrapWithMxFile(last.arg)

\* a vertex, its child and the edge between them were accepted
AcceptedWitness ==
    /\ Accepted
    /\ last.arg = CellsText(<<TextA, TextLoop>>)

\* C28: the cells of the wrapped text of a well-formed flat cell sequence
\* are the two scaffold cells and then the cells of the sequence, each as
\* it was, none of them inside another.
WrapRoundTrips ==
    (last.tool = "display_diagram" /\ last.handed # <<>>) =>
        \A D \in CellSequences :
            last.arg = CellsText(D) =>
                /\ [k \in DOMAIN ParseCells(last.handed[1]) |-> ParseCells(last.handed[1])[k].cell]
                     = <<TextCell(<<"0">>, <<>>, <<>>, <<>>),
                         TextCell(<<"1">>, <<"0">>, <<>>, <<>>)>> \o D
                /\ \A k \in DOMAIN ParseCells(last.handed[1]) :
                      ParseCells(last.handed[1])[k].depth = 0

\* a sequence of three cells was wrapped and handed on
WrapRoundTripsWitness ==
    /\ last.tool = "display_diagram"
    /\ last.handed # <<>>
    /\ last.arg = CellsText(<<TextLoop, TextA>>)
    /\ Len(ParseCells(last.handed[1])) = 4

(***************************************************************************)
(* The tool-call boundary                                                  *)
(***************************************************************************)
\* how often a handler called the callback
Count(calls, name) == Cardinality({i \in DOMAIN calls : calls[i] = name})

\* C29: every display_diagram, edit_diagram and append_diagram call that
\* handleToolCall handled to its end has exactly one tool output, a success
\* or an error, whatever path the handler took.
EveryCallAnswered ==
    /\ (last # NoOutput /\ last.kind # "awaiting_fetch")
          => last.state \in {"output-available", "output-error"}
    /\ edited # NoEdit
          => /\ Count(edited.calls, "addToolOutput") = 1
             /\ edited.state \in {"output-available", "output-error"}

\* the text a call decides on: the fragment for display_diagram, the pending
\* text with the fragment at its end for append_diagram
DecidedOn(pending, output) ==
    IF output.tool = "append_diagram" THEN pending \o output.arg ELSE output.arg

\* C30: whenever display_diagram or append_diagram hands a text to the
\* wrapper and to onDisplayChart, it is the whole text the call decided on,
\* the detector takes that text for complete, and it is no text cut inside
\* a tag, a quoted value or an open element.
OnlyCompleteIsDisplayed ==
    [][last'.handed # <<>> =>
          /\ last'.handed = <<WrapWithMxFile(DecidedOn(partialXml, last'))>>
          /\ IsMxCellXmlComplete(DecidedOn(partialXml, last'))
          /\ ~CutInside(DecidedOn(partialXml, last'))]_vars

\* a continuation completed a pending text and the assembled text was
\* handed on
AssembledHandedOnWitness ==
    /\ last.tool = "append_diagram"
    /\ last.handed # <<>>
    /\ last.arg # <<>>
    /\ Len(last.handed[1]) > Len(WrapWithMxFile(last.arg))
    /\ CutAtBoundary(asm.raw)

(***************************************************************************)
(* Continuations without a pending assembly                                *)
(***************************************************************************)
\* C31: an append_diagram call that arrives while no text is pending hands
\* nothing to the wrapper and to onDisplayChart: it neither displays a
\* diagram nor replaces the one that is displayed.
ContinuationNeedsPending ==
    [][(AppendStep /\ partialXml = <<>>)
          => /\ last'.handed = <<>>
             /\ last'.kind \notin {"displayed", "validation_error"}]_vars

(***************************************************************************)
(* The entries of the store                                                *)
(***************************************************************************)
\* C32: an entry of the store keeps the mapping it was created with for as
\* long as it is in the store: no later extract_image_regions call, no read
\* and no timer of another entry changes it, and every entry in the store
\* is the one its own call inserted.
EntriesAreImmutable ==
    [][/\ \A k \in DOMAIN extractedRegionsCache \cap DOMAIN extractedRegionsCache' :
             extractedRegionsCache'[k] = extractedRegionsCache[k]
       /\ \A k \in DOMAIN extractedRegionsCache' :
             /\ k \in DOMAIN timers'
             /\ extractedRegionsCache'[k] = timers'[k].stored
       /\ \A k \in DOMAIN timers : timers'[k].stored = timers[k].stored]_vars

\* two entries with different mappings, created at different times, are in
\* the store together
TwoEntriesWitness ==
    /\ DOMAIN extractedRegionsCache = {KeyK, KeyJ}
    /\ extractedRegionsCache[KeyK] # extractedRegionsCache[KeyJ]
    /\ timers[KeyK].created # timers[KeyJ].created

(***************************************************************************)
(* Placeholder inputs of the tool-call repair                              *)
(***************************************************************************)
\* C33: a display_diagram call with the placeholder xml = "" and an
\* edit_diagram call with the placeholder operations = [] end with an error
\* output, and neither hands a document to onDisplayChart.
PlaceholderFails ==
    /\ (last.tool = "display_diagram" /\ last.arg = <<>>)
          => /\ last.state = "output-error"
             /\ last.handed = <<>>
    /\ (edited # NoEdit /\ edited.operations = <<>>)
          => /\ edited.state = "output-error"
             /\ ~Called(edited.calls, "onDisplayChart")

(***************************************************************************)
(* The references extract_image_regions hands out                          *)
(***************************************************************************)
\* the call of this step and its key
HandsOut(key) == key \in DOMAIN timers' /\ key \notin DOMAIN timers

\* some region of the call with that name was extracted
ExtractedAs(regions, name) ==
    \E i \in DOMAIN regions : regions[i].name = name /\ ~regions[i].error

\* C34: when extract_image_regions answers with a key and names, the store
\* holds an entry for the key and its mapping holds every name of the
\* answer with the data of an extracted region; a region that failed, and
\* that no region of the same name replaces, is neither in the mapping nor
\* among the names.
HandedOutIsResolvable ==
    [][\A key \in StoreKeys : HandsOut(key) =>
          /\ key \in DOMAIN extractedRegionsCache'
          /\ \A i \in DOMAIN timers'[key].names :
                /\ timers'[key].names[i] \in DOMAIN extractedRegionsCache'[key]
                /\ ExtractedAs(timers'[key].regions, timers'[key].names[i])
          /\ \A i \in DOMAIN timers'[key].regions :
                LET r == timers'[key].regions[i]
                IN  /\ ~r.error =>
                          \E j \in DOMAIN timers'[key].names : timers'[key].names[j] = r.name
                    /\ (r.error /\ ~ExtractedAs(timers'[key].regions, r.name)) =>
                          /\ r.name \notin DOMAIN extractedRegionsCache'[key]
                          /\ \A j \in DOMAIN timers'[key].names :
                                timers'[key].names[j] # r.name]_vars

\* a call of which one region failed and the other was extracted
PartlyExtractedWitness ==
    \E key \in DOMAIN timers :
        /\ timers[key].regions = <<FailedRegion(RegionA), Extracted(RegionAB, <<"e">>)>>
        /\ timers[key].names = <<RegionAB>>
        /\ key \in DOMAIN extractedRegionsCache

(***************************************************************************)
(* What the resolution leaves alone                                        *)
(***************************************************************************)
\* the pieces of a text between the references that the store resolves,
\* the references it does not resolve being part of the pieces
RECURSIVE KeptPieces(_, _, _)
KeptPieces(xml, i, store) ==
    LET starts == {j \in i..Len(xml) :
                      /\ CacheMatchAt(xml, j) # NoMatch
                      /\ CacheMatchAt(xml, j).key \in DOMAIN store
                      /\ CacheMatchAt(xml, j).region
                             \in DOMAIN store[CacheMatchAt(xml, j).key]}
    IN  IF starts = {} THEN <<SubSeq(xml, i, Len(xml))>>
        ELSE <<SubSeq(xml, i, Least(starts) - 1)>>
             \o KeptPieces(xml, CacheMatchAt(xml, Least(starts)).end + 1, store)

\* from pos on the text holds the pieces in their order, any text between
\* them, the last piece at its end
RECURSIVE FollowedBy(_, _, _)
FollowedBy(text, pos, pieces) ==
    IF Len(pieces) = 1
    THEN /\ Len(text) - Len(pieces[1]) + 1 >= pos
         /\ SubSeq(text, Len(text) - Len(pieces[1]) + 1, Len(text)) = pieces[1]
    ELSE \E q \in pos..(Len(text) + 1) :
            /\ SubSeq(text, q, q + Len(pieces[1]) - 1) = pieces[1]
            /\ FollowedBy(text, q + Len(pieces[1]), Tail(pieces))

\* the text begins with the first piece and holds the others after it
KeepsPieces(text, pieces) ==
    /\ Len(text) >= Len(pieces[1])
    /\ SubSeq(text, 1, Len(pieces[1])) = pieces[1]
    /\ IF Len(pieces) = 1 THEN text = pieces[1]
       ELSE FollowedBy(text, Len(pieces[1]) + 1, Tail(pieces))

\* the text display_diagram leaves in this step: the document it hands on,
\* without the scaffold, or the buffer
TextLeft ==
    IF last'.handed # <<>>
    THEN SubSeq(last'.handed[1], Len(ScaffoldHead) + 1,
                Len(last'.handed[1]) - Len(ScaffoldTail))
    ELSE partialXml'

\* C35: the resolution changes resolvable references only: the references
\* whose key was not looked up with success or whose region the mapping
\* does not hold, and all text outside the resolved references, stand in
\* the text after the resolution as they stood before, in their order.
ResolutionKeepsTheRest ==
    [][DisplayReturns
        => \E keys \in SUBSET DOMAIN extractedRegionsCache :
              KeepsPieces(TextLeft,
                  KeptPieces(last'.arg, 1, Answered(extractedRegionsCache, keys)))]_vars

(***************************************************************************)
(* The captured originals                                                  *)
(***************************************************************************)
\* C36: when handleEditDiagram has handled a call, with operation errors,
\* a validation error, success or a thrown exception, the map of captured
\* originals holds no entry for the call and the entries of the other
\* calls are what they were.
OriginalIsReleased ==
    [][EditStep =>
          /\ edited'.id \notin DOMAIN editDiagramOriginalXml'
          /\ DOMAIN editDiagramOriginalXml'
                = DOMAIN editDiagramOriginalXml \ {edited'.id}
          /\ \A t \in DOMAIN editDiagramOriginalXml' :
                editDiagramOriginalXml'[t] = editDiagramOriginalXml[t]]_vars

\* a call whose original was captured ended with a thrown exception while
\* the original of the other call stays captured
ReleasedAfterThrowWitness ==
    /\ edited.kind = "failed"
    /\ edited.id = "call1"
    /\ DOMAIN editDiagramOriginalXml = {"call2"}

(***************************************************************************)
(* The export after an edit                                                *)
(***************************************************************************)
\* the position of the first call of the callback, 0 if it was not called
FirstCallOf(calls, name) ==
    IF Called(calls, name) THEN Least({i \in DOMAIN calls : calls[i] = name}) ELSE 0

ChatStep == handled'.route = "chat" /\ handled' # handled

\* C38: when access codes are configured and the request carries none of
\* them in x-access-code, the response is 401 and the handler has done
\* nothing else: the quota was not counted, no cached response was looked
\* up or returned and the model was not called.
AccessCheckComesFirst ==
    [][( /\ ChatStep
         /\ \E i \in DOMAIN handled'.req.list :
                \E j \in DOMAIN handled'.req.list[i] : handled'.req.list[i][j] # " "
         /\ \A i \in DOMAIN handled'.req.list :
                handled'.req.header = <<>>
                \/ handled'.req.header # Trim(handled'.req.list[i]))
        => /\ handled'.status = 401
           /\ handled'.used = Used
           /\ \A i \in DOMAIN handled'.calls :
                 handled'.calls[i] \notin {"checkAndIncrementRequest", "findCachedResponse",
                                          "createCachedStreamResponse", "streamText"}]_vars

\* a request with the code behind a space was refused after other requests
\* had been counted
RefusedWitness ==
    /\ handled.route = "chat"
    /\ handled.status = 401
    /\ handled.req.header = <<" ", "s">>
    /\ handled.req.quotaEnabled /\ ~handled.req.hasOwnApiKey /\ ~handled.req.anonymous
    /\ handled.req.cached
    /\ handled.used = 1

(***************************************************************************)
(* The clamping of regions                                                 *)
(***************************************************************************)
\* C39: for an image with width and height of at least 1 and any integers
\* as x, y, width and height of the region, the crop lies inside the image
\* and is at least one pixel wide and high, and a warning is recorded
\* exactly when one of the four values of the crop differs from the
\* requested one.
CropStaysInside ==
    (/\ handled.route = "extract"
     /\ handled.state = "clamped"
     /\ handled.imageWidth >= 1
     /\ handled.imageHeight >= 1)
    => /\ 0 <= handled.crop.x
       /\ 0 <= handled.crop.y
       /\ handled.crop.width >= 1
       /\ handled.crop.height >= 1
       /\ handled.crop.x + handled.crop.width <= handled.imageWidth
       /\ handled.crop.y + handled.crop.height <= handled.imageHeight
       /\ (Len(handled.adjustmentWarnings) = 1)
            <=> (<<handled.crop.x, handled.crop.y, handled.crop.width, handled.crop.height>>
                 # <<handled.region.x, handled.region.y,
                     handled.region.width, handled.region.height>>)
       /\ Len(handled.adjustmentWarnings) <= 1

\* a region left of the image, below it, wider than it and without height
\* was clamped
ClampedWitness ==
    /\ handled.route = "extract"
    /\ handled.state = "clamped"
    /\ handled.imageWidth = 2 /\ handled.imageHeight = 2
    /\ handled.region.x = 0 - 1 /\ handled.region.y = 3
    /\ handled.region.width = 4 /\ handled.region.height = 0
    /\ handled.crop = [x |-> 0, y |-> 1, width |-> 2, height |-> 1]
    /\ Len(handled.adjustmentWarnings) = 1

\* a region inside the image was cropped as requested, without a warning
UnadjustedWitness ==
    /\ handled.route = "extract"
    /\ handled.state = "clamped"
    /\ handled.imageWidth = 3 /\ handled.imageHeight = 2
    /\ handled.region.x = 1 /\ handled.region.width = 2
    /\ handled.region.y = 0 /\ handled.region.height = 2
    /\ handled.adjustmentWarnings = <<>>

=============================================================================
